---- MODULE Spec2Model ----
(***************************************************************************)
(* A model of the KYC submission pipeline (src/src/main.py), the case      *)
(* store it writes to (src/src/database.py) and the admin operations on    *)
(* stored cases (src/src/api_server.py).                                   *)
(*                                                                         *)
(* Values that come back from the external evaluation service are JSON     *)
(* documents.  They are modelled as tagged records so that the code's      *)
(* isinstance tests, key lookups and AttributeErrors can be followed       *)
(* literally:                                                              *)
(*   [t |-> "str",  s |-> text, js |-> what json.loads(text) gives]        *)
(*   [t |-> "dict", d |-> record of members]                               *)
(*   [t |-> "list", l |-> sequence of elements]                            *)
(*   [t |-> "null"]                                                        *)
(***************************************************************************)
EXTENDS Integers, Sequences, FiniteSets, Bags, TLC

VARIABLES
    db_cases,       \* kyc_cases table: sequence of rows, row i has id i
    db_steps,       \* processing_steps table: per processor, the rows it inserted
    db_docs,        \* documents table: bag of rows
    db_audit,       \* audit_logs table: sequence of rows
    run,            \* per processor: the process_customer_submission call in flight
    session_state,  \* per processor: KYCProcessor.session_state, agent type -> context
    sent,           \* log of the payloads handed to bedrock_agent_runtime.invoke_agent
    started,        \* per processor: agent types in the order invoke_bedrock_agent was entered
    admin_ops,      \* number of admin requests served so far
    sessions,       \* per server process: the admin request whose database session is open
    pure_in,        \* argument of the pure function under check
    pure_out        \* its result

vars == <<db_cases, db_steps, db_docs, db_audit, run, session_state, sent, started,
          admin_ops, sessions, pure_in, pure_out>>

----------------------------------------------------------------------------
(* Bounds *)

\* longest "matches" list in a sanction-screening reply
MaxMatches == 2
\* number of admin requests in one behaviour
MaxAdminOps == 2

----------------------------------------------------------------------------
(* JSON values *)

NoJson == [t |-> "invalid"]
JStr(s) == [t |-> "str", s |-> s, js |-> NoJson]
JText(s, v) == [t |-> "str", s |-> s, js |-> v]
JDict(d) == [t |-> "dict", d |-> d]
JList(l) == [t |-> "list", l |-> l]
JNull == [t |-> "null"]
JNum(n) == [t |-> "num", n |-> n]
EmptyDict == JDict(<<>>)

\* key in d
HasKey(v, k) == v.t = "dict" /\ k \in DOMAIN v.d
\* d.get(k, default)
Get(v, k, default) == IF k \in DOMAIN v.d THEN v.d[k] ELSE default
\* Python truth value
Truthy(v) ==
    CASE v.t = "str" -> v.s # ""
      [] v.t = "dict" -> DOMAIN v.d # {}
      [] v.t = "list" -> Len(v.l) > 0
      [] v.t = "num" -> v.n # 0
      [] OTHER -> FALSE

\* x.lower() contains kw, for the texts the model uses
\* ('incomplete' contains 'complete')
Keywords(s) ==
    CASE s = "complete" -> {"complete"}
      [] s = "incomplete" -> {"complete", "incomplete"}
      [] s = "pending review" -> {"pending"}
      [] s = "failed" -> {"failed"}
      [] s = "high risk" -> {"high"}
      [] s = "Medium" -> {"medium"}
      [] s = "Government Official" -> {"government"}
      [] OTHER -> {}
Contains(s, kw) == kw \in Keywords(s)

----------------------------------------------------------------------------
(* Submissions: the customer_data dict and the documents directory *)

DocTypes == {"id_proof", "address_proof", "employment_proof"}
\* annual_income is None
NoIncome == -1

\* KYCProcessor.parse_salary: None when empty or unparsable, the number
\* otherwise; raises AttributeError on a truthy non-string
SalaryRaises(v) == Truthy(v) /\ v.t # "str"
StrToFloat(s) ==
    CASE s = "85000" -> 85000
      [] s = "$600,000" -> 600000
      [] s = "0" -> 0
      [] OTHER -> NoIncome
parse_salary(v) == IF ~Truthy(v) THEN NoIncome ELSE StrToFloat(v.s)

\* f"{first} {last}".strip()
FullName(first, last) ==
    IF first = "" THEN last
    ELSE IF last = "" THEN first
    ELSE first \o " " \o last

\* a or b, on strings
OrStr(a, b) == IF a # "" THEN a ELSE b
\* parse_salary(x) or declared: 0.0 and None are falsy
OrIncome(a, b) == IF a # NoIncome /\ a # 0 THEN a ELSE b

\* the extraction of one attached document:
\*   found: a file named "<type>_<id>..." is in the documents directory
\*   ok:    extract_info_from_document returned status success
\*   data:  the extracted fields ("" stands for absent, null and empty alike)
NoData == [first_name |-> "", last_name |-> "", dob |-> "", nationality |-> "",
           full_address |-> "", employer_name |-> "", position |-> "",
           annual_salary |-> JNull]

FeedsFrom(files, ty, docs) == ty \in docs /\ files[ty].found /\ files[ty].ok

EnhanceRaises(cd, files) ==
    FeedsFrom(files, "employment_proof", cd.documents)
    /\ SalaryRaises(files["employment_proof"].data.annual_salary)

determine_customer_type(cd) ==
    IF cd.pep_status THEN "PEP"
    ELSE IF cd.business_name # "" THEN "Business"
    ELSE IF cd.university # "" THEN "Student"
    ELSE IF cd.occupation = "Freelance Developer" THEN "Freelancer"
    ELSE IF cd.annual_income # NoIncome /\ cd.annual_income > 200000 THEN "High_Net_Worth"
    ELSE "Individual"

EstimatedRiskIncomeCounted(cd) ==
    LET pep == IF cd.pep_status THEN 50 ELSE 0
        inc == IF cd.annual_income # NoIncome
               THEN (IF cd.annual_income >= 500000 THEN 30
                     ELSE IF cd.annual_income >= 200000 THEN 15 ELSE 0)
               ELSE 0
        biz == IF cd.business_name # "" THEN 20 ELSE 0
        gov == IF cd.position # "" /\ Contains(cd.position, "government") THEN 25 ELSE 0
        risk_score == pep + inc + biz + gov + Cardinality(DocTypes \ cd.documents) * 10
    IN  IF risk_score >= 50 THEN "High"
        ELSE IF risk_score >= 25 THEN "Medium"
        ELSE "Low"

EstimatedRiskCountsPresent(cd) ==
    LET pep == IF cd.pep_status THEN 50 ELSE 0
        inc == IF cd.annual_income # NoIncome
               THEN (IF cd.annual_income > 500000 THEN 30
                     ELSE IF cd.annual_income > 200000 THEN 15 ELSE 0)
               ELSE 0
        biz == IF cd.business_name # "" THEN 20 ELSE 0
        gov == IF cd.position # "" /\ Contains(cd.position, "government") THEN 25 ELSE 0
        risk_score == pep + inc + biz + gov + Cardinality(DocTypes \cap cd.documents) * 10
    IN  IF risk_score >= 50 THEN "High"
        ELSE IF risk_score >= 25 THEN "Medium"
        ELSE "Low"

calculate_estimated_risk(cd) ==
    LET pep == IF cd.pep_status THEN 50 ELSE 0
        inc == IF cd.annual_income # NoIncome
               THEN (IF cd.annual_income > 500000 THEN 30
                     ELSE IF cd.annual_income > 200000 THEN 15 ELSE 0)
               ELSE 0
        biz == IF cd.business_name # "" THEN 20 ELSE 0
        gov == IF cd.position # "" /\ Contains(cd.position, "government") THEN 25 ELSE 0
        missing == Cardinality(DocTypes \ cd.documents)
        risk_score == pep + inc + biz + gov + missing * 10
    IN  IF risk_score >= 50 THEN "High"
        ELSE IF risk_score >= 25 THEN "Medium"
        ELSE "Low"

\* the update made for one document type whose extraction succeeded
EnrichField(extracted, current) == OrStr(extracted, current)

enhance_customer_data_with_documents(cd, files) ==
    LET id == files["id_proof"].data
        ad == files["address_proof"].data
        em == files["employment_proof"].data
        useId == FeedsFrom(files, "id_proof", cd.documents)
        useAd == FeedsFrom(files, "address_proof", cd.documents)
        useEm == FeedsFrom(files, "employment_proof", cd.documents)
        c1 == [cd EXCEPT
                 !.name = IF useId THEN EnrichField(FullName(id.first_name, id.last_name), @) ELSE @,
                 !.dob = IF useId THEN EnrichField(id.dob, @) ELSE @,
                 !.nationality = IF useId THEN EnrichField(id.nationality, @) ELSE @,
                 !.address = IF useAd THEN EnrichField(ad.full_address, @) ELSE @,
                 !.employer = IF useEm THEN EnrichField(em.employer_name, @) ELSE @,
                 !.occupation = IF useEm THEN EnrichField(em.position, @) ELSE @,
                 !.annual_income = IF useEm THEN OrIncome(parse_salary(em.annual_salary), @) ELSE @]
        c2 == [c1 EXCEPT !.customer_type = determine_customer_type(c1)]
    IN  [c2 EXCEPT !.estimated_risk_level = calculate_estimated_risk(c2)]

----------------------------------------------------------------------------
(* What invoke_bedrock_agent returns *)

Stages == <<"coordinator", "document_validation", "risk_analysis",
            "sanction_screening", "compliance">>
StageSet == {Stages[i] : i \in 1..Len(Stages)}

NotConfiguredResult ==
    JDict([status |-> JStr("error"), message |-> JStr("Agent ID not configured")])
ErrorResult(agent) ==
    JDict([status |-> JStr("error"), error |-> JStr("exception"),
           agent_id |-> JStr(agent), timestamp |-> JStr("now")])
SimpleErrorResult(agent) ==
    JDict([status |-> JStr("error"), error |-> JStr("exception"),
           agent_id |-> JStr(agent), input_format |-> JStr("simple")])
EmptyBothResult(agent) ==
    JDict([status |-> JStr("error"),
           message |-> JStr("Agent returned empty response with both input formats"),
           agent_id |-> JStr(agent)])
SimpleSuccessResult(body) ==
    JDict([status |-> JStr("success"), response_text |-> body,
           raw_response |-> body, input_format |-> JStr("simple")])
\* json.loads(response_body), or the plain-text wrapper on JSONDecodeError
ParseBody(body) ==
    IF body.js # NoJson THEN body.js
    ELSE JDict([status |-> JStr("success"), response_text |-> body, raw_response |-> body])

\* "key in parsed" inside a try block whose except passes: only a dict can
\* hold the key (a list or text of the model never does, a number raises)
ParsedHas(parsed, k) == HasKey(parsed, k)

extract_status_from_response(response, status_key) ==
    IF response.t = "dict" THEN Get(response, status_key, JStr("unknown"))
    ELSE IF response.t = "str" THEN
        (IF Contains(response.s, "complete") \/ Contains(response.s, "success")
            THEN JStr("complete")
         ELSE IF Contains(response.s, "incomplete") \/ Contains(response.s, "pending")
            THEN JStr("incomplete")
         ELSE IF Contains(response.s, "error") \/ Contains(response.s, "failed")
            THEN JStr("error")
         ELSE JStr("unknown"))
    ELSE JStr("unknown")

\* extract_risk_level raises AttributeError when the nested results are no dict
RiskLevelRaises(r) ==
    HasKey(r, "risk_analysis_results") /\ r.d["risk_analysis_results"].t # "dict"

extract_risk_level(r) ==
    IF r.t = "dict" THEN
        IF HasKey(r, "risk_analysis_results")
            THEN Get(r.d["risk_analysis_results"], "risk_classification", JStr("Unknown"))
        ELSE IF HasKey(r, "risk_classification")
            THEN r.d["risk_classification"]
        ELSE IF HasKey(r, "response_text") /\ r.d["response_text"].t = "str"
            THEN LET parsed == r.d["response_text"].js
                 IN  IF ParsedHas(parsed, "risk_analysis_results")
                        /\ parsed.d["risk_analysis_results"].t = "dict"
                        THEN Get(parsed.d["risk_analysis_results"], "risk_classification",
                                 JStr("Unknown"))
                     ELSE IF ~ParsedHas(parsed, "risk_analysis_results")
                             /\ ParsedHas(parsed, "risk_classification")
                        THEN parsed.d["risk_classification"]
                     ELSE JStr("Unknown")
        ELSE JStr("Unknown")
    ELSE IF r.t = "str" THEN
        (IF Contains(r.s, "high") THEN JStr("High")
         ELSE IF Contains(r.s, "medium") THEN JStr("Medium")
         ELSE IF Contains(r.s, "low") THEN JStr("Low")
         ELSE JStr("Unknown"))
    ELSE JStr("Unknown")

extract_agent_results(response, result_key) ==
    IF response.t = "dict" THEN
        IF HasKey(response, result_key) THEN response.d[result_key]
        ELSE IF HasKey(response, "response_text") /\ response.d["response_text"].t = "str"
                /\ ParsedHas(response.d["response_text"].js, result_key)
            THEN response.d["response_text"].js.d[result_key]
        ELSE response
    ELSE response

\* the loop over matches (main.py 416-428): the index of the first element
\* that ends it, by a PEP match (break) or by an AttributeError on
\* match.get for an element that is no dict; 0 when it runs to the end
IsPepMatch(m) == m.t = "dict" /\ Get(m, "source", JNull) = JStr("PEP")
FirstStop(l) ==
    LET stops == {i \in 1..Len(l) : l[i].t # "dict" \/ IsPepMatch(l[i])}
    IN  IF stops = {} THEN 0
        ELSE CHOOSE i \in stops : \A j \in stops : i <= j

\* outcome of lines 411-428 for a sanction response:
\* "skip" (no match_found), "none", "pep", or "raise"
PepScan(sanction_response) ==
    LET sr == extract_agent_results(sanction_response, "sanction_screening_results")
    IN  IF ~(Truthy(sr) /\ sr.t = "dict") THEN "skip"
        ELSE IF Get(sr, "screening_status", JNull) # JStr("match_found") THEN "skip"
        ELSE LET matches == Get(sr, "matches", JList(<<>>))
             IN  CASE matches.t = "list" ->
                        (LET i == FirstStop(matches.l)
                         IN  IF i = 0 THEN "none"
                             ELSE IF IsPepMatch(matches.l[i]) THEN "pep"
                             ELSE "raise")
                   [] matches.t = "dict" ->
                        \* iterating a dict yields its keys, which are text
                        (IF DOMAIN matches.d = {} THEN "none" ELSE "raise")
                   [] matches.t = "str" ->
                        (IF matches.s = "" THEN "none" ELSE "raise")
                   [] OTHER -> "raise"
PepDetails(sanction_response) ==
    LET sr == extract_agent_results(sanction_response, "sanction_screening_results")
        l == sr.d["matches"].l
        m == Get(l[FirstStop(l)], "match_details", JStr(""))
    IN  IF m.t = "str" THEN m.s ELSE "?"

\* the decision with the two tests in the other order
FinalStatusRejectedFirst(validation_status, compliance_status) ==
    IF validation_status = JStr("error") \/ compliance_status = JStr("violation")
        THEN "rejected"
    ELSE IF validation_status = JStr("incomplete") \/ compliance_status = JStr("warning")
        THEN "pending"
    ELSE "approved"
\* the final status decision, main.py 460-464
FinalStatus(validation_status, compliance_status) ==
    IF validation_status = JStr("incomplete") \/ compliance_status = JStr("warning")
        THEN "pending"
    ELSE IF validation_status = JStr("error") \/ compliance_status = JStr("violation")
        THEN "rejected"
    ELSE "approved"

----------------------------------------------------------------------------
(* The case store, database.py *)

Procs == {1, 2}
\* ids of the rows of kyc_cases: each submission creates at most one
CaseIds == 1..Cardinality(Procs)

Max(S) == CHOOSE x \in S : \A y \in S : y <= x

\* customer ids are "CUST%03d"; the model keeps the number, 0 for no id
generate_unique_customer_id(cases) ==
    LET customer_numbers == {cases[i].customer_id : i \in 1..Len(cases)}
    IN  IF customer_numbers = {} THEN 1 ELSE Max(customer_numbers) + 1

customer_exists(cases, customer_id) ==
    \E i \in 1..Len(cases) : cases[i].customer_id = customer_id

\* .filter(customer_id == x).first(): customer_id is unique
get_case_by_customer_id(cases, customer_id) ==
    CHOOSE i \in 1..Len(cases) : cases[i].customer_id = customer_id

\* the row create_kyc_case inserts
NewCase(cd) ==
    [customer_id |-> cd.customer_id, name |-> cd.name, dob |-> cd.dob,
     nationality |-> cd.nationality, address |-> cd.address,
     occupation |-> cd.occupation, employer |-> cd.employer,
     annual_income |-> cd.annual_income, pep_status |-> cd.pep_status,
     customer_type |-> cd.customer_type,
     estimated_risk_level |-> cd.estimated_risk_level,
     status |-> "submitted", completion_time |-> FALSE,
     final_risk_level |-> "", validation_status |-> <<>>,
     compliance_status |-> ""]

DocId(ty) == ty \o "_1"
DocRows(case_id, types) == SetToBag({[case_id |-> case_id, document_type |-> ty,
                                      document_id |-> DocId(ty)] : ty \in types})

\* text stored in a String column for a JSON value
ToText(v) == IF v.t = "str" THEN v.s ELSE "None"

\* the PEP flag set on the working record only
UpdatePepNotStored(cases, case_id) == cases
\* update_case_status(case_id, pep_status=True)
UpdatePep(cases, case_id) ==
    IF case_id \in 1..Len(cases)
    THEN [cases EXCEPT ![case_id].pep_status = TRUE]
    ELSE cases

\* update_case_status with every argument given (main.py 470-478): an
\* argument that is falsy leaves its column alone, pep_status is written
\* whenever it is not None
UpdateFinal(cases, case_id, status, risk, vstat, cstat, pep) ==
    IF case_id \in 1..Len(cases)
    THEN [cases EXCEPT
            ![case_id].status = IF status # "" THEN status ELSE @,
            ![case_id].final_risk_level = IF Truthy(risk) THEN ToText(risk) ELSE @,
            ![case_id].validation_status = IF Truthy(vstat) THEN <<ToText(vstat)>> ELSE @,
            ![case_id].compliance_status = IF Truthy(cstat) THEN ToText(cstat) ELSE @,
            ![case_id].completion_time = TRUE,
            ![case_id].pep_status = pep]
    ELSE cases

\* f"{current}; {note}".strip('; ')
AppendNote(notes, note) == Append(notes, note)

----------------------------------------------------------------------------
(* One call of process_customer_submission, main.py 336-502 *)

NoValue == [t |-> "unset"]
NoResult == [status |-> "none", customer_id |-> 0, case_id |-> 0,
             final_status |-> "", risk_level |-> "", validation_status |-> "",
             compliance_status |-> ""]
ErrorReturn(customer_id) == [NoResult EXCEPT !.status = "error", !.customer_id = customer_id]

StoredStages == {"document_validation", "risk_analysis", "sanction_screening", "compliance"}

Idle == [pc |-> "idle"]

NewRun(cd, files, agents, warnings) ==
    [pc |-> "new", given_id |-> cd.customer_id, cd |-> cd, files |-> files,
     agents |-> agents, warnings |-> warnings, enh |-> cd, exists |-> FALSE, case_id |-> 0,
     stage |-> 1, step |-> 0, resp |-> [a \in StoredStages |-> NoValue],
     raised |-> {}, ret |-> NoResult, later |-> <<>>]

Abort(r) ==
    run' = [run EXCEPT ![r].pc = "done", ![r].ret = ErrorReturn(run[r].cd.customer_id)]

\* lines 347-354: assign the customer id, then enrich
BeginSubmission(r) ==
    /\ run[r].pc = "new"
    /\ LET cd == IF run[r].cd.customer_id = 0
                 THEN [run[r].cd EXCEPT !.customer_id = generate_unique_customer_id(db_cases)]
                 ELSE run[r].cd
       IN  IF EnhanceRaises(cd, run[r].files)
           THEN run' = [run EXCEPT ![r].pc = "done", ![r].cd = cd,
                                   ![r].ret = ErrorReturn(cd.customer_id)]
           ELSE run' = [run EXCEPT ![r].pc = "exists", ![r].cd = cd,
                           ![r].enh = enhance_customer_data_with_documents(cd, run[r].files)]
    /\ UNCHANGED <<db_cases, db_steps, db_docs, db_audit, session_state, sent,
                   started, admin_ops, sessions, pure_in, pure_out>>

\* get_or_create_case, first half: customer_exists
CheckExists(r) ==
    /\ run[r].pc = "exists"
    /\ run' = [run EXCEPT ![r].pc = "create",
                          ![r].exists = customer_exists(db_cases, run[r].enh.customer_id)]
    /\ UNCHANGED <<db_cases, db_steps, db_docs, db_audit, session_state, sent,
                   started, admin_ops, sessions, pure_in, pure_out>>

\* get_or_create_case, second half: the existing case, or create_kyc_case,
\* whose INSERT fails on the unique customer_id when another submission
\* created the case in between
GetOrCreate(r) ==
    /\ run[r].pc = "create"
    /\ IF run[r].exists
       THEN /\ run' = [run EXCEPT ![r].pc = "docs",
                          ![r].case_id = get_case_by_customer_id(db_cases, run[r].enh.customer_id)]
            /\ UNCHANGED <<db_cases, db_docs>>
       ELSE IF customer_exists(db_cases, run[r].enh.customer_id)
       THEN /\ Abort(r)
            /\ UNCHANGED <<db_cases, db_docs>>
       ELSE /\ db_cases' = Append(db_cases, NewCase(run[r].enh))
            /\ db_docs' = db_docs (+) DocRows(Len(db_cases) + 1, run[r].enh.documents)
            /\ run' = [run EXCEPT ![r].pc = "docs", ![r].case_id = Len(db_cases) + 1]
    /\ UNCHANGED <<db_steps, db_audit, session_state, sent, started, admin_ops,
                   sessions, pure_in, pure_out>>

\* add_documents_to_database: one row per attached document whose file is found
AddDocuments(r) ==
    /\ run[r].pc = "docs"
    /\ db_docs' = db_docs (+) DocRows(run[r].case_id,
                      {ty \in run[r].cd.documents : run[r].files[ty].found})
    /\ run' = [run EXCEPT ![r].pc = "stage"]
    /\ UNCHANGED <<db_cases, db_steps, db_audit, session_state, sent, started,
                   admin_ops, sessions, pure_in, pure_out>>

----------------------------------------------------------------------------
(* invoke_bedrock_agent, main.py 51-242, and try_simple_input_format, 244-334 *)

StepName(a) ==
    CASE a = "coordinator" -> "coordinator_initiation"
      [] a = "compliance" -> "compliance_check"
      [] OTHER -> a

\* the input_data argument of a stage: lines 374, 384, 394, 404 and 434-446
InputData(r, a) ==
    IF a = "compliance"
    THEN [customer_data |-> run[r].enh,
          agent_results |->
             [document_validation |->
                 extract_agent_results(run[r].resp["document_validation"],
                                       "document_validation_results"),
              risk_analysis |->
                 extract_agent_results(run[r].resp["risk_analysis"],
                                       "risk_analysis_results"),
              sanction_screening |->
                 extract_agent_results(run[r].resp["sanction_screening"],
                                       "sanction_screening_results")]]
    ELSE [customer_data |-> run[r].enh]

\* agent_input, lines 84-90 (the timestamp is left out)
AgentInput(input_data, session_context) ==
    [customer_data |-> input_data.customer_data,
     session_context |-> session_context]

\* simple_input, lines 247-257
SimpleInput(input_data) ==
    [name |-> input_data.customer_data.name,
     customer_id |-> input_data.customer_data.customer_id,
     documents |-> input_data.customer_data.documents]

NoContext == [last_customer |-> 0]

\* what the call leaves behind for the caller, lines 370-454: the response
\* variable is bound and the next statement is reached
Advance(r, a, result, raised) ==
    [run[r] EXCEPT
        !.resp = IF a \in StoredStages THEN [@ EXCEPT ![a] = result] ELSE @,
        !.raised = IF raised THEN @ \cup {a} ELSE @,
        !.step = 0,
        !.stage = IF @ < Len(Stages) THEN @ + 1 ELSE @,
        !.pc = IF a = "sanction_screening" THEN "pep"
               ELSE IF a = "compliance" THEN "final"
               ELSE "stage"]

\* update_processing_step(step_id, end_time, status, ...)
FinishStep(steps, r, status) ==
    IF run[r].step = 0 THEN steps
    ELSE [steps EXCEPT ![r][run[r].step].status = status,
                       ![r][run[r].step].ended = TRUE]

\* lines 65-103: the agent id check, add_processing_step, the payload, the call
StageBegin(r) ==
    /\ run[r].pc = "stage"
    /\ LET a == Stages[run[r].stage]
       IN  /\ started' = [started EXCEPT ![r] = Append(@, a)]
           /\ IF a \notin run[r].agents
              THEN /\ run' = [run EXCEPT ![r] = Advance(r, a, NotConfiguredResult, FALSE)]
                   /\ UNCHANGED <<db_steps, sent>>
              ELSE /\ db_steps' = [db_steps EXCEPT ![r] =
                          Append(@, [case_id |-> run[r].case_id, step_name |-> StepName(a),
                                     agent_type |-> a, status |-> "pending",
                                     ended |-> FALSE])]
                   /\ sent' = [sent EXCEPT ![r] =
                          Append(@, [stage |-> a, format |-> "json",
                                     body |-> AgentInput(InputData(r, a), session_state[r][a])])]
                   /\ run' = [run EXCEPT ![r].pc = "await",
                                         ![r].step = Len(db_steps[r]) + 1]
    /\ UNCHANGED <<db_cases, db_docs, db_audit, session_state, admin_ops,
                   sessions, pure_in, pure_out>>

\* the first call, with the simplified input sent again after an exception
StageReplyRetriesOnRaise(r, o) ==
    /\ run[r].pc = "await"
    /\ LET a == Stages[run[r].stage]
       IN  IF o.raise \/ o.body.s = ""
           THEN /\ sent' = [sent EXCEPT ![r] =
                       Append(@, [stage |-> a, format |-> "simple",
                                  body |-> SimpleInput(InputData(r, a))])]
                /\ run' = [run EXCEPT ![r].pc = "await2",
                              ![r].raised = IF o.raise THEN @ \cup {a} ELSE @]
                /\ UNCHANGED <<session_state, db_steps>>
           ELSE /\ session_state' = [session_state EXCEPT ![r][a] =
                       [last_customer |-> run[r].enh.customer_id]]
                /\ db_steps' = FinishStep(db_steps, r, "success")
                /\ run' = [run EXCEPT ![r] = Advance(r, a, ParseBody(o.body), FALSE)]
                /\ UNCHANGED sent
    /\ UNCHANGED <<db_cases, db_docs, db_audit, started, admin_ops, sessions, pure_in, pure_out>>

\* lines 98-242: the first call raises, returns an empty body, or returns a body
StageReply(r, o) ==
    /\ run[r].pc = "await"
    /\ LET a == Stages[run[r].stage]
       IN  IF o.raise
           THEN /\ db_steps' = FinishStep(db_steps, r, "error")
                /\ run' = [run EXCEPT ![r] = Advance(r, a, ErrorResult(a), TRUE)]
                /\ UNCHANGED <<session_state, sent>>
           ELSE IF o.body.s = ""
           THEN /\ sent' = [sent EXCEPT ![r] =
                       Append(@, [stage |-> a, format |-> "simple",
                                  body |-> SimpleInput(InputData(r, a))])]
                /\ run' = [run EXCEPT ![r].pc = "await2"]
                /\ UNCHANGED <<session_state, db_steps>>
           ELSE /\ session_state' = [session_state EXCEPT ![r][a] =
                       [last_customer |-> run[r].enh.customer_id]]
                /\ db_steps' = FinishStep(db_steps, r, "success")
                /\ run' = [run EXCEPT ![r] = Advance(r, a, ParseBody(o.body), FALSE)]
                /\ UNCHANGED sent
    /\ UNCHANGED <<db_cases, db_docs, db_audit, started, admin_ops, sessions, pure_in, pure_out>>

\* try_simple_input_format: the second call raises, is empty again, or returns text
StageReplySimple(r, o) ==
    /\ run[r].pc = "await2"
    /\ LET a == Stages[run[r].stage]
       IN  IF o.raise
           THEN /\ db_steps' = FinishStep(db_steps, r, "error")
                /\ run' = [run EXCEPT ![r] = Advance(r, a, SimpleErrorResult(a), TRUE)]
           ELSE IF o.body.s = ""
           THEN /\ db_steps' = FinishStep(db_steps, r, "error")
                /\ run' = [run EXCEPT ![r] = Advance(r, a, EmptyBothResult(a), FALSE)]
           ELSE /\ db_steps' = FinishStep(db_steps, r, "success")
                /\ run' = [run EXCEPT ![r] = Advance(r, a, SimpleSuccessResult(o.body), FALSE)]
    /\ UNCHANGED <<db_cases, db_docs, db_audit, session_state, sent, started,
                   admin_ops, sessions, pure_in, pure_out>>

\* lines 410-428: the PEP match of the sanction result
PepCheck(r) ==
    /\ run[r].pc = "pep"
    /\ LET scan == PepScan(run[r].resp["sanction_screening"])
       IN  IF scan = "raise"
           THEN Abort(r) /\ UNCHANGED db_cases
           ELSE IF scan = "pep"
           THEN /\ run' = [run EXCEPT ![r].pc = "stage",
                              ![r].enh.pep_status = TRUE,
                              ![r].enh.pep_details =
                                  PepDetails(run[r].resp["sanction_screening"])]
                /\ db_cases' = UpdatePep(db_cases, run[r].case_id)
           ELSE /\ run' = [run EXCEPT ![r].pc = "stage"]
                /\ UNCHANGED db_cases
    /\ UNCHANGED <<db_steps, db_docs, db_audit, session_state, sent, started,
                   admin_ops, sessions, pure_in, pure_out>>

\* lines 456-493: the final status, the risk level, the final update, the result
Finalize(r) ==
    /\ run[r].pc = "final"
    /\ LET validation_status ==
               extract_status_from_response(run[r].resp["document_validation"],
                                            "validation_status")
           compliance_status ==
               extract_status_from_response(run[r].resp["compliance"],
                                            "compliance_status")
           final_status == FinalStatus(validation_status, compliance_status)
           risk_response == run[r].resp["risk_analysis"]
       IN  IF RiskLevelRaises(risk_response)
           THEN Abort(r) /\ UNCHANGED db_cases
           ELSE LET risk_level == extract_risk_level(risk_response)
                IN  /\ db_cases' = UpdateFinal(db_cases, run[r].case_id, final_status,
                                               risk_level, validation_status,
                                               compliance_status, run[r].enh.pep_status)
                    /\ run' = [run EXCEPT ![r].pc = "done",
                                  ![r].ret = [status |-> "success",
                                              customer_id |-> run[r].cd.customer_id,
                                              case_id |-> run[r].case_id,
                                              final_status |-> final_status,
                                              risk_level |-> ToText(risk_level),
                                              validation_status |-> ToText(validation_status),
                                              compliance_status |-> ToText(compliance_status)]]
    /\ UNCHANGED <<db_steps, db_docs, db_audit, session_state, sent, started,
                   admin_ops, sessions, pure_in, pure_out>>

----------------------------------------------------------------------------
(* submit_customer_kyc, api_server.py 477-534: what the handler does with  *)
(* the result of process_customer_submission                               *)

\* validation_warnings: none; one warning whose discrepancies are records;
\* one built from the result _validate_with_rules gives when it fails
\* internally (document_processor.py 610-616)
NoWarnings == <<>>
RecordWarnings ==
    <<[document_type |-> "id_proof", confidence_score |-> 70,
       discrepancies |-> <<[field |-> "first_name", document_value |-> "jane",
                            user_value |-> "alice", severity |-> "medium"]>>]>>
ErrorWarnings ==
    <<[document_type |-> "id_proof", confidence_score |-> 0,
       discrepancies |-> <<JStr("Validation error occurred")>>]>>
WarningLists == {NoWarnings, RecordWarnings, ErrorWarnings}

\* disc['field'] on an element that is not a record raises TypeError
NoteRaises(warnings) ==
    \E i \in DOMAIN warnings : \E j \in DOMAIN warnings[i].discrepancies :
        "field" \notin DOMAIN warnings[i].discrepancies[j]

SubmitReturn(r) ==
    /\ run[r].pc = "done"
    /\ IF run[r].ret.status = "success" /\ run[r].warnings # <<>>
          /\ run[r].ret.case_id \in 1..Len(db_cases)
       THEN IF NoteRaises(run[r].warnings)
            THEN \* the session is closed without a commit; HTTP 500
                 /\ run' = [run EXCEPT ![r].pc = "closed", ![r].ret.status = "http_500"]
                 /\ UNCHANGED db_cases
            ELSE /\ db_cases' = [db_cases EXCEPT
                        ![run[r].ret.case_id].status = "pending",
                        ![run[r].ret.case_id].final_risk_level = "pending",
                        ![run[r].ret.case_id].completion_time = FALSE,
                        ![run[r].ret.case_id].validation_status =
                            AppendNote(@, "Document Validation Warnings")]
                 /\ run' = [run EXCEPT ![r].pc = "closed",
                                       ![r].ret.final_status = "pending",
                                       ![r].ret.risk_level = "pending"]
       ELSE /\ run' = [run EXCEPT ![r].pc = "closed"]
            /\ UNCHANGED db_cases
    /\ UNCHANGED <<db_steps, db_docs, db_audit, session_state, sent, started,
                   admin_ops, sessions, pure_in, pure_out>>

----------------------------------------------------------------------------
(* Admin requests on a stored case, api_server.py *)

AuditRow(case_id, action_type) == [case_id |-> case_id, action_type |-> action_type]

\* archive_case, 701-707: the assignments to the row the session read
ArchivedRow(row) ==
    [row EXCEPT !.status = "archived", !.completion_time = TRUE,
                !.validation_status = <<"Archived">>]

\* archive_case, 680-746: refused with 400 for a case that is archived
ArchiveCase(c) ==
    /\ admin_ops < MaxAdminOps
    /\ c \in 1..Len(db_cases)
    /\ admin_ops' = admin_ops + 1
    /\ IF db_cases[c].status = "archived"
       THEN UNCHANGED <<db_cases, db_audit>>
       ELSE /\ db_cases' = [db_cases EXCEPT ![c] = ArchivedRow(@)]
            /\ db_audit' = Append(db_audit, AuditRow(c, "case_archived"))
    /\ UNCHANGED <<db_steps, db_docs, run, session_state, sent, started,
                   sessions, pure_in, pure_out>>

ReviewActions == {"approve", "reject", "request_info"}

\* manual_review, 287-300: the assignments to the row the session read
ReviewedRow(row, action) ==
    [row EXCEPT
        !.status = CASE action = "approve" -> "approved"
                     [] action = "reject" -> "rejected"
                     [] OTHER -> "pending",
        !.final_risk_level =
            IF action = "approve" THEN OrStr(row.estimated_risk_level, "low") ELSE @,
        !.completion_time = IF action \in {"approve", "reject"} THEN TRUE ELSE @,
        !.validation_status = AppendNote(@, "Manual Review")]

\* manual_review, 273-319
ManualReview(c, action) ==
    /\ admin_ops < MaxAdminOps
    /\ c \in 1..Len(db_cases)
    /\ admin_ops' = admin_ops + 1
    /\ db_cases' = [db_cases EXCEPT ![c] = ReviewedRow(@, action)]
    /\ UNCHANGED <<db_steps, db_docs, db_audit, run, session_state, sent, started,
                   sessions, pure_in, pure_out>>

\* retry_processing, 334-335
RetriedRow(row) == [row EXCEPT !.status = "pending", !.completion_time = FALSE]

\* retry_processing, 321-352
RetryProcessing(c) ==
    /\ admin_ops < MaxAdminOps
    /\ c \in 1..Len(db_cases)
    /\ admin_ops' = admin_ops + 1
    /\ db_cases' = [db_cases EXCEPT ![c] = RetriedRow(@)]
    /\ UNCHANGED <<db_steps, db_docs, db_audit, run, session_state, sent, started,
                   sessions, pure_in, pure_out>>

\* CaseUpdateRequest: "" stands for a field that is None
UpdateRequests ==
    {[risk_level |-> "High", set_pep |-> FALSE, pep_status |-> FALSE, case_status |-> ""],
     [risk_level |-> "", set_pep |-> TRUE, pep_status |-> FALSE, case_status |-> ""],
     [risk_level |-> "", set_pep |-> FALSE, pep_status |-> FALSE, case_status |-> "approved"]}

\* update_case, 762-776: the assignments to the row the session read
UpdatedRow(row, req) ==
    [row EXCEPT
        !.final_risk_level = IF req.risk_level # "" THEN req.risk_level ELSE @,
        !.pep_status = IF req.set_pep THEN req.pep_status ELSE @,
        !.status = IF req.case_status # "" THEN req.case_status ELSE @,
        !.completion_time =
            IF req.case_status \in {"approved", "rejected"} THEN TRUE ELSE @,
        !.validation_status = AppendNote(@, "Manual Update")]

\* update_case, 748-823
UpdateCase(c, req) ==
    /\ admin_ops < MaxAdminOps
    /\ c \in 1..Len(db_cases)
    /\ admin_ops' = admin_ops + 1
    /\ db_cases' = [db_cases EXCEPT ![c] = UpdatedRow(@, req)]
    /\ db_audit' = Append(db_audit, AuditRow(c, "case_updated"))
    /\ UNCHANGED <<db_steps, db_docs, run, session_state, sent, started,
                   sessions, pure_in, pure_out>>

----------------------------------------------------------------------------
(* What the external service can answer *)

Raise == [raise |-> TRUE, body |-> JStr("")]
Reply(body) == [raise |-> FALSE, body |-> body]
EmptyBody == JStr("")
PlainText == JStr("The customer looks fine")
\* a body that json.loads accepts, and the value it gives
AsJson(v) == JText("json", v)

RECURSIVE SeqsUpTo(_, _)
SeqsUpTo(S, n) ==
    IF n = 0 THEN {<<>>}
    ELSE LET shorter == SeqsUpTo(S, n - 1)
         IN  shorter \cup {Append(q, x) : q \in shorter, x \in S}

PepMatch == JDict([source |-> JStr("PEP"), entity_name |-> JStr("A. Smith"),
                   match_details |-> JStr("minister")])
OfacMatch == JDict([source |-> JStr("OFAC"), entity_name |-> JStr("A. Smith")])
MatchKinds == {PepMatch, OfacMatch, JStr("PEP")}

Screening(status, matches) ==
    JDict([screening_status |-> JStr(status), matches |-> matches])

Docs(a) ==
    CASE a = "coordinator" -> {JDict([status |-> JStr("initiated")])}
      [] a = "document_validation" ->
            {JDict([validation_status |-> JStr(v)]) : v \in {"complete", "incomplete", "error"}}
            \cup {JDict([status |-> JStr("success")]), JStr("incomplete")}
      [] a = "risk_analysis" ->
            {JDict([risk_analysis_results |-> JDict([risk_classification |-> JStr("High")])]),
             JDict([risk_analysis_results |-> JDict([risk_score |-> JNum(10)])]),
             JDict([risk_analysis_results |-> JStr("High")]),
             JDict([risk_classification |-> JStr("Medium")]),
             JStr("high risk")}
      [] a = "sanction_screening" ->
            {JDict([sanction_screening_results |-> Screening("match_found", JList(l))]) :
                 l \in SeqsUpTo(MatchKinds, MaxMatches)}
            \cup {JDict([sanction_screening_results |-> Screening("clear", JList(<<>>))]),
                  JDict([sanction_screening_results |-> Screening("match_found", JNull)]),
                  JDict([sanction_screening_results |-> JStr("clear")]),
                  Screening("match_found", JList(<<PepMatch>>))}
      [] OTHER ->
            {JDict([compliance_status |-> JStr(v)]) : v \in {"compliant", "warning", "violation"}}
            \cup {JDict([status |-> JStr("success")])}

\* the answer to the simplified payload that is looked at more closely
SimpleDoc(a) ==
    CASE a = "coordinator" -> JDict([status |-> JStr("initiated")])
      [] a = "document_validation" -> JDict([validation_status |-> JStr("incomplete")])
      [] a = "risk_analysis" ->
            JDict([risk_analysis_results |-> JDict([risk_classification |-> JStr("High")])])
      [] a = "sanction_screening" ->
            JDict([sanction_screening_results |->
                       Screening("match_found", JList(<<PepMatch>>))])
      [] OTHER -> JDict([compliance_status |-> JStr("warning")])

FirstOutcomes(a) ==
    {Raise, Reply(EmptyBody), Reply(PlainText)} \cup {Reply(AsJson(v)) : v \in Docs(a)}
SecondOutcomes(a) ==
    {Raise, Reply(EmptyBody), Reply(PlainText), Reply(AsJson(SimpleDoc(a)))}

----------------------------------------------------------------------------
(* Submissions *)

BlankCustomer ==
    [customer_id |-> 0, name |-> "", dob |-> "", nationality |-> "", address |-> "",
     employer |-> "", occupation |-> "", annual_income |-> NoIncome,
     business_name |-> "", position |-> "", university |-> "",
     pep_status |-> FALSE, pep_details |-> "", documents |-> {},
     customer_type |-> "", estimated_risk_level |-> ""]

NoFile == [found |-> FALSE, ok |-> FALSE, data |-> NoData]
NoFiles == [ty \in DocTypes |-> NoFile]
FileOf(data) == [found |-> TRUE, ok |-> TRUE, data |-> data]

IdData == [NoData EXCEPT !.first_name = "Alice", !.last_name = "Smith",
                         !.dob = "1990-01-01", !.nationality = "US"]
AddressData == [NoData EXCEPT !.full_address = "1 Main St"]
JobData == [NoData EXCEPT !.employer_name = "Acme", !.position = "Government Official",
                          !.annual_salary = JStr("$600,000")]
\* the salary extracted as a JSON number
BadJobData == [JobData EXCEPT !.annual_salary = JNum(85000)]

GoodFiles == [ty \in DocTypes |->
                 CASE ty = "id_proof" -> FileOf(IdData)
                   [] ty = "address_proof" -> FileOf(AddressData)
                   [] OTHER -> FileOf(JobData)]

Alice == [BlankCustomer EXCEPT !.name = "Alice Smith", !.address = "1 Main St",
                               !.documents = DocTypes]
Bob == [BlankCustomer EXCEPT !.customer_id = 7, !.name = "Bob Jones",
                             !.pep_status = TRUE, !.documents = {"id_proof"}]

AllAgents == StageSet

Submissions ==
    {NewRun(Alice, NoFiles, AllAgents, NoWarnings),
     NewRun(Alice, NoFiles, AllAgents \ {"risk_analysis"}, NoWarnings),
     NewRun(Bob, NoFiles, AllAgents, NoWarnings),
     NewRun(Alice, [GoodFiles EXCEPT !["employment_proof"] = FileOf(BadJobData)],
            AllAgents, NoWarnings)}

----------------------------------------------------------------------------
(* One submission, every answer of the external service *)

NoPure == [kind |-> "none"]

\* server processes that serve admin requests, and one with no request open
ServerProcs == {1, 2}
NoSession == [pc |-> "idle"]

InitStore ==
    /\ db_cases = <<>>
    /\ db_steps = [r \in Procs |-> <<>>]
    /\ db_docs = EmptyBag
    /\ db_audit = <<>>
    /\ session_state = [r \in Procs |-> [a \in StageSet |-> NoContext]]
    /\ sent = [r \in Procs |-> <<>>]
    /\ started = [r \in Procs |-> <<>>]
    /\ admin_ops = 0
    /\ sessions = [p \in ServerProcs |-> NoSession]

Init ==
    /\ InitStore
    /\ \E sub \in Submissions : run = [r \in Procs |-> IF r = 1 THEN sub ELSE Idle]
    /\ pure_in = NoPure
    /\ pure_out = NoPure

Next ==
    \E r \in Procs :
        \/ BeginSubmission(r)
        \/ CheckExists(r)
        \/ GetOrCreate(r)
        \/ AddDocuments(r)
        \/ StageBegin(r)
        \/ (run[r].pc = "await"
              /\ \E o \in FirstOutcomes(Stages[run[r].stage]) : StageReply(r, o))
        \/ (run[r].pc = "await2"
              /\ \E o \in SecondOutcomes(Stages[run[r].stage]) : StageReplySimple(r, o))
        \/ PepCheck(r)
        \/ Finalize(r)
        \/ SubmitReturn(r)

Spec == Init /\ [][Next]_vars

----------------------------------------------------------------------------
(* Two submissions in flight at once, each on its own KYCProcessor, and     *)
(* admin requests in between.  The interleaving is at the grain of the      *)
(* database calls: every DatabaseManager method opens its own session.      *)

SmallOutcomes(a) == {Raise, Reply(AsJson(SimpleDoc(a)))}

\* the same customer submitting again under the identifier of the first case
Returning == [Alice EXCEPT !.customer_id = 1]

ConcurrentAgents == {"compliance"}

FirstSubmissions ==
    {NewRun(Alice, NoFiles, ConcurrentAgents, w) : w \in {NoWarnings, RecordWarnings}}
SecondSubmissions == {NewRun(Alice, NoFiles, ConcurrentAgents, NoWarnings),
                      NewRun(Returning, NoFiles, ConcurrentAgents, NoWarnings)}

InitConcurrent ==
    /\ InitStore
    /\ \E s1 \in FirstSubmissions, s2 \in SecondSubmissions :
           run = [r \in Procs |-> IF r = 1 THEN s1 ELSE s2]
    /\ pure_in = NoPure
    /\ pure_out = NoPure

NextConcurrent ==
    \/ \E r \in Procs :
        \/ BeginSubmission(r)
        \/ CheckExists(r)
        \/ GetOrCreate(r)
        \/ AddDocuments(r)
        \/ StageBegin(r)
        \/ (run[r].pc = "await"
              /\ \E o \in SmallOutcomes(Stages[run[r].stage]) : StageReply(r, o))
        \/ PepCheck(r)
        \/ Finalize(r)
        \/ SubmitReturn(r)
    \/ \E c \in CaseIds :
        \/ ArchiveCase(c)
        \/ (\E action \in ReviewActions : ManualReview(c, action))
        \/ RetryProcessing(c)
        \/ (\E req \in UpdateRequests : UpdateCase(c, req))

SpecConcurrent == InitConcurrent /\ [][NextConcurrent]_vars

----------------------------------------------------------------------------
(* enhance_customer_data_with_documents on its own *)

Declared ==
    {[BlankCustomer EXCEPT !.customer_id = 1, !.name = n, !.address = ad,
                           !.employer = e, !.annual_income = inc, !.documents = d] :
        n \in {"", "A. Smith"}, ad \in {"", "2 Side St"}, e \in {"", "Initech"},
        inc \in {NoIncome, 50000}, d \in {DocTypes, {"id_proof"}}}

Extractions ==
    {GoodFiles, NoFiles,
     [GoodFiles EXCEPT !["id_proof"] = FileOf(NoData)],
     [GoodFiles EXCEPT !["address_proof"].ok = FALSE],
     [GoodFiles EXCEPT !["employment_proof"] = FileOf(BadJobData)]}

InitEnrich ==
    /\ InitStore
    /\ run = [r \in Procs |-> Idle]
    /\ \E cd \in Declared, files \in Extractions :
           pure_in = [kind |-> "enrich", cd |-> cd, files |-> files]
    /\ pure_out = NoPure

ApplyEnhance ==
    /\ pure_in.kind = "enrich"
    /\ pure_out = NoPure
    /\ pure_out' = IF EnhanceRaises(pure_in.cd, pure_in.files)
                   THEN [kind |-> "raised"]
                   ELSE [kind |-> "value",
                         cd |-> enhance_customer_data_with_documents(pure_in.cd,
                                                                     pure_in.files)]
    /\ UNCHANGED <<db_cases, db_steps, db_docs, db_audit, run, session_state, sent,
                   started, admin_ops, sessions, pure_in>>

NextEnrich == ApplyEnhance

SpecEnrich == InitEnrich /\ [][NextEnrich]_vars

----------------------------------------------------------------------------
(* Properties of one run of process_customer_submission *)

Finished(r) == run[r].pc \in {"done", "closed"}
Returned(r) == run[r].pc = "done" /\ run[r].ret.status = "success"
IsPrefix(s, t) == Len(s) <= Len(t) /\ \A i \in 1..Len(s) : s[i] = t[i]
StartedSet(r) == {started[r][i] : i \in 1..Len(started[r])}

\* C1: in every run the five stages are started in the order coordinator,
\* document_validation, risk_analysis, sanction_screening, compliance, each
\* exactly once, and a stage is started only after the case is stored and the
\* processing step of the stage before it has been finalised.
C1_StagesInOrderEachOnce ==
    \A r \in Procs :
        run[r].pc # "idle" =>
            /\ IsPrefix(started[r], Stages)
            /\ (Len(started[r]) > 0 => run[r].case_id \in 1..Len(db_cases))
            /\ (run[r].pc = "stage" =>
                    \A i \in 1..Len(db_steps[r]) : db_steps[r][i].ended)
            /\ (Finished(r) => started[r] = Stages)

\* C2: whatever goes wrong with the external call of a stage (an exception,
\* an empty answer, text that is no JSON, a structured answer of an
\* unexpected shape), the run is not aborted: every later stage is invoked
\* and the run returns status success with a final status.
C2_NoStageFailureAborts ==
    \A r \in Procs :
        (Finished(r) /\ Len(started[r]) > 0) =>
            /\ run[r].ret.status = "success"
            /\ started[r] = Stages
            /\ run[r].ret.final_status \in {"approved", "pending", "rejected"}

\* C3: a run in which the external call of each of the five stages raises
\* ends with the stored case pending or rejected, never approved and never
\* left at submitted.
C3_AllRaiseNeverApproved ==
    \A r \in Procs :
        (run[r].pc = "done" /\ run[r].raised = StageSet) =>
            /\ run[r].case_id \in 1..Len(db_cases)
            /\ db_cases[run[r].case_id].status \in {"pending", "rejected"}

\* C4: the final status is decided by the two probe values alone: pending if
\* the validation status is incomplete or the compliance status is warning,
\* otherwise rejected if the validation status is error or the compliance
\* status is violation, otherwise approved; pending wins over rejected.
C4_FinalStatusTable ==
    \A r \in Procs :
        Returned(r) =>
            LET v == run[r].ret.validation_status
                c == run[r].ret.compliance_status
                expected == IF v = "incomplete" \/ c = "warning" THEN "pending"
                            ELSE IF v = "error" \/ c = "violation" THEN "rejected"
                            ELSE "approved"
            IN  /\ run[r].ret.final_status = expected
                /\ db_cases[run[r].case_id].status = expected

\* a run whose probes say error and warning at once, and which ended pending
C4_Witness ==
    \E r \in Procs :
        /\ Returned(r)
        /\ run[r].ret.validation_status = "error"
        /\ run[r].ret.compliance_status = "warning"
        /\ run[r].ret.final_status = "pending"

\* C5: the payload sent to the external service for the compliance stage
\* holds the enriched customer record together with the results of
\* document validation, risk analysis and sanction screening.
C5_CompliancePayloadCarriesResults ==
    \A r \in Procs :
        \A i \in 1..Len(sent[r]) :
            (sent[r][i].stage = "compliance" /\ sent[r][i].format = "json") =>
                /\ sent[r][i].body.customer_data = run[r].enh
                /\ "agent_results" \in DOMAIN sent[r][i].body
                /\ sent[r][i].body.agent_results = InputData(r, "compliance").agent_results

\* the sanction reply names a match whose source is PEP
ReportsPepMatch(sanction_response) ==
    LET sr == extract_agent_results(sanction_response, "sanction_screening_results")
    IN  /\ sr.t = "dict"
        /\ Get(sr, "screening_status", JNull) = JStr("match_found")
        /\ Get(sr, "matches", JNull).t = "list"
        /\ \E i \in 1..Len(sr.d["matches"].l) : IsPepMatch(sr.d["matches"].l[i])

\* C6: when the sanction result reports a PEP match, then from the moment the
\* compliance stage is invoked the working record and the stored case both
\* have pep_status true, and the stored flag is still true after the final
\* update of the run.
C6_PepStoredBeforeCompliance ==
    \A r \in Procs :
        (run[r].pc # "idle"
           /\ ReportsPepMatch(run[r].resp["sanction_screening"])
           /\ "compliance" \in StartedSet(r)) =>
            /\ run[r].enh.pep_status
            /\ db_cases[run[r].case_id].pep_status

\* a customer declared as no PEP, a sanction reply with a PEP match, the run
\* complete and the stored flag set
C6_Witness ==
    \E r \in Procs :
        /\ Returned(r)
        /\ ~run[r].cd.pep_status
        /\ ReportsPepMatch(run[r].resp["sanction_screening"])
        /\ db_cases[run[r].case_id].pep_status
        /\ db_cases[run[r].case_id].completion_time

\* C7: the final risk level stored and returned by a run is the
\* classification of the risk-analysis stage when its result carries one,
\* and otherwise the estimated risk level computed for the enriched record.
C7_RiskLevelFallsBackToEstimate ==
    \A r \in Procs :
        Returned(r) =>
            LET classification == extract_risk_level(run[r].resp["risk_analysis"])
                expected == IF classification # JStr("Unknown")
                            THEN ToText(classification)
                            ELSE run[r].enh.estimated_risk_level
            IN  /\ run[r].ret.risk_level = expected
                /\ db_cases[run[r].case_id].final_risk_level = expected

----------------------------------------------------------------------------
(* Enrichment *)

TextFields == {"name", "dob", "nationality", "address", "employer", "occupation"}

\* C8: enrichment never changes a declared field that is not empty; the
\* extracted value is taken only for a field declared empty or absent.
C8_DeclaredFieldsKept ==
    pure_out.kind = "value" =>
        /\ \A f \in TextFields :
               pure_in.cd[f] # "" => pure_out.cd[f] = pure_in.cd[f]
        /\ (pure_in.cd.annual_income # NoIncome =>
               pure_out.cd.annual_income = pure_in.cd.annual_income)

----------------------------------------------------------------------------
(* Cases under concurrent submissions and admin requests *)

\* C9: archived is terminal: once the status of a case is archived, no later
\* operation on the case changes it to anything else.
C9_ArchivedIsTerminal ==
    [][\A c \in CaseIds :
          (c <= Len(db_cases) /\ db_cases[c].status = "archived") =>
              db_cases'[c].status = "archived"]_vars

\* C10: two submissions that arrive without a customer identifier get
\* different identifiers and are stored as two distinct cases, also when the
\* second identifier is generated before the first run has created its case.
C10_DistinctIdentifiers ==
    \A r1 \in Procs : \A r2 \in Procs :
        (r1 # r2 /\ run[r1].pc \notin {"idle", "new"} /\ run[r2].pc \notin {"idle", "new"}
           /\ run[r1].given_id = 0 /\ run[r2].given_id = 0) =>
            /\ run[r1].cd.customer_id # run[r2].cd.customer_id
            /\ ((Finished(r1) /\ Finished(r2)) =>
                    /\ run[r1].case_id # 0
                    /\ run[r2].case_id # 0
                    /\ run[r1].case_id # run[r2].case_id)

----------------------------------------------------------------------------
(* Writers of one case served by different processes.  Every writer opens   *)
(* a database session, reads the row (session.query(...).first()), assigns  *)
(* to the loaded object and commits; the commit issues an UPDATE of the     *)
(* columns whose value differs from the one that was read.  Nothing locks   *)
(* the row between the read and the commit.                                 *)

\* a case as a finished run leaves it
StoredCase ==
    UpdateFinal(<<NewCase(enhance_customer_data_with_documents(Returning, NoFiles))>>,
                1, "approved", JStr("Medium"), JStr("complete"), JStr("compliant"),
                FALSE)[1]

WriteRequests ==
    {[kind |-> "review", action |-> a] : a \in ReviewActions}
    \cup {[kind |-> "update", req |-> q] : q \in UpdateRequests}
    \cup {[kind |-> "retry"], [kind |-> "archive"], [kind |-> "final"]}

\* the row object after the writer's assignments, from the row it read
Effect(row, q) ==
    CASE q.kind = "review" -> ReviewedRow(row, q.action)
      [] q.kind = "update" -> UpdatedRow(row, q.req)
      [] q.kind = "retry" -> RetriedRow(row)
      [] q.kind = "archive" -> (IF row.status = "archived" THEN row ELSE ArchivedRow(row))
      [] OTHER -> UpdateFinal(<<row>>, 1, "rejected", JStr("High"), JStr("error"),
                              JStr("violation"), FALSE)[1]

\* the writer assigns datetime.now() to completion_time, a value that differs
\* from whatever time was read
Stamps(row, q) ==
    CASE q.kind = "review" -> q.action \in {"approve", "reject"}
      [] q.kind = "update" -> q.req.case_status \in {"approved", "rejected"}
      [] q.kind = "retry" -> FALSE
      [] q.kind = "archive" -> row.status # "archived"
      [] OTHER -> TRUE

\* session.commit(): the UPDATE sets the columns the writer changed
Flush(current, seen, new, stamped) ==
    [f \in DOMAIN current |->
        IF new[f] # seen[f] \/ (stamped /\ f = "completion_time") THEN new[f]
        ELSE current[f]]

OpenSession(p, q) ==
    /\ sessions[p].pc = "idle"
    /\ Len(db_cases) > 0
    /\ sessions' = [sessions EXCEPT ![p] =
           [pc |-> "open", req |-> q, case_id |-> 1, seen |-> db_cases[1]]]
    /\ UNCHANGED <<db_cases, db_steps, db_docs, db_audit, run, session_state, sent,
                   started, admin_ops, pure_in, pure_out>>

CommitSession(p) ==
    /\ sessions[p].pc = "open"
    /\ LET c == sessions[p].case_id
           seen == sessions[p].seen
           q == sessions[p].req
           new == Effect(seen, q)
       IN  /\ db_cases' = [db_cases EXCEPT ![c] = Flush(@, seen, new, Stamps(seen, q))]
           /\ db_audit' =
                 IF q.kind = "update" THEN Append(db_audit, AuditRow(c, "case_updated"))
                 ELSE IF q.kind = "archive" /\ seen.status # "archived"
                     THEN Append(db_audit, AuditRow(c, "case_archived"))
                 ELSE db_audit
    /\ sessions' = [sessions EXCEPT ![p].pc = "closed"]
    /\ UNCHANGED <<db_steps, db_docs, run, session_state, sent, started, admin_ops,
                   pure_in, pure_out>>

InitWrites ==
    /\ db_cases = <<StoredCase>>
    /\ db_steps = [r \in Procs |-> <<>>]
    /\ db_docs = EmptyBag
    /\ db_audit = <<>>
    /\ run = [r \in Procs |-> Idle]
    /\ session_state = [r \in Procs |-> [a \in StageSet |-> NoContext]]
    /\ sent = [r \in Procs |-> <<>>]
    /\ started = [r \in Procs |-> <<>>]
    /\ admin_ops = 0
    /\ sessions = [p \in ServerProcs |-> NoSession]
    /\ pure_in = NoPure
    /\ pure_out = NoPure

NextWrites ==
    \E p \in ServerProcs :
        \/ (\E q \in WriteRequests : OpenSession(p, q))
        \/ CommitSession(p)

SpecWrites == InitWrites /\ [][NextWrites]_vars

\* C11: writes to one case are serialized: when two operations update the
\* same case concurrently, the stored case is the one that some sequential
\* order of the two operations produces, so neither loses a note or a field
\* to the stale read of the other.
C11_WritesSerialized ==
    (\A p \in ServerProcs : sessions[p].pc = "closed") =>
        \E p1 \in ServerProcs : \E p2 \in ServerProcs \ {p1} :
            db_cases[1] = Effect(Effect(StoredCase, sessions[p1].req), sessions[p2].req)

----------------------------------------------------------------------------
(* One KYCProcessor used for several submissions in a row, as main() does   *)
(* (main.py 768-852), next to a fresh processor given the same submission.  *)

\* the caller goes on to its next scenario with the same processor
NextScenario(r) ==
    /\ run[r].pc = "done"
    /\ Len(run[r].later) > 0
    /\ run' = [run EXCEPT ![r] = [Head(run[r].later) EXCEPT !.later = Tail(run[r].later)]]
    /\ started' = [started EXCEPT ![r] = <<>>]
    /\ UNCHANGED <<db_cases, db_steps, db_docs, db_audit, session_state, sent,
                   admin_ops, sessions, pure_in, pure_out>>

Earlier == [Bob EXCEPT !.documents = DocTypes]
Probe == NewRun(Returning, NoFiles, ConcurrentAgents, NoWarnings)

InitSession ==
    /\ InitStore
    /\ \E first \in {Bob, Earlier} :
           run = [r \in Procs |->
                     IF r = 1
                     THEN [NewRun(first, NoFiles, ConcurrentAgents, NoWarnings)
                               EXCEPT !.later = <<Probe>>]
                     ELSE Probe]
    /\ pure_in = NoPure
    /\ pure_out = NoPure

NextSession ==
    \E r \in Procs :
        \/ BeginSubmission(r)
        \/ CheckExists(r)
        \/ GetOrCreate(r)
        \/ AddDocuments(r)
        \/ StageBegin(r)
        \/ (run[r].pc = "await"
              /\ \E o \in SmallOutcomes(Stages[run[r].stage]) : StageReply(r, o))
        \/ PepCheck(r)
        \/ Finalize(r)
        \/ NextScenario(r)

SpecSession == InitSession /\ [][NextSession]_vars

\* C12: there is no cross-case state: the payload a processor sends to a
\* stage for a submission is the same whatever cases the processor handled
\* before, so a processor that handled another case first and a fresh
\* processor send equal payloads for the same customer record.
C12_NoCrossCaseState ==
    \A i \in 1..Len(sent[1]) : \A j \in 1..Len(sent[2]) :
        (sent[1][i].stage = sent[2][j].stage
           /\ sent[1][i].format = sent[2][j].format
           /\ sent[1][i].body.customer_data = sent[2][j].body.customer_data) =>
            sent[1][i].body = sent[2][j].body

----------------------------------------------------------------------------
----------------------------------------------------------------------------
(* Document validation (src/src/document_processor.py)                     *)
(*                                                                         *)
(* A str handled by the validator is the sequence of its whitespace-       *)
(* separated words (a run of white space that strip() and split() drop is  *)
(* the word " "), so that split(), join() and the word sets are            *)
(* computed as the code computes them; "" is the empty sequence.  A word   *)
(* is spelled letter by letter in Spelling, which gives the character      *)
(* sets, the prefixes and the initials.  A record is a JSON object whose   *)
(* members are such strs or null.                                          *)

Txt(ws) == [t |-> "text", w |-> ws]
NoText == Txt(<<>>)
JBool(b) == [t |-> "bool", b |-> b]

Spelling(w) ==
    CASE w = "john" -> <<"j", "o", "h", "n">>
      [] w = "jon" -> <<"j", "o", "n">>
      [] w = "jane" -> <<"j", "a", "n", "e">>
      [] w = "smith" -> <<"s", "m", "i", "t", "h">>
      [] w = "doe" -> <<"d", "o", "e">>
      [] w = "william" -> <<"w", "i", "l", "l", "i", "a", "m">>
      [] w = "bill" -> <<"b", "i", "l", "l">>
      [] w = "johnson" -> <<"j", "o", "h", "n", "s", "o", "n">>
      [] w = "us" -> <<"u", "s">>
      [] w = "uk" -> <<"u", "k">>
      [] w = "12" -> <<"1", "2">>
      [] w = "45" -> <<"4", "5">>
      [] w = "main" -> <<"m", "a", "i", "n">>
      [] w = "oak" -> <<"o", "a", "k">>
      [] w = "street" -> <<"s", "t", "r", "e", "e", "t">>
      [] w = "st" -> <<"s", "t">>
      [] w = "avenue" -> <<"a", "v", "e", "n", "u", "e">>
      [] w = "ave" -> <<"a", "v", "e">>
      [] w = "acme" -> <<"a", "c", "m", "e">>
      [] w = "corp" -> <<"c", "o", "r", "p">>
      [] w = "corporation" -> <<"c", "o", "r", "p", "o", "r", "a", "t", "i", "o", "n">>
      [] w = "globex" -> <<"g", "l", "o", "b", "e", "x">>
      [] w = "engineer" -> <<"e", "n", "g", "i", "n", "e", "e", "r">>
      [] w = "eng" -> <<"e", "n", "g">>
      [] w = "manager" -> <<"m", "a", "n", "a", "g", "e", "r">>
      [] OTHER -> <<>>

\* w.lower(), for the capitalised words of the model
LowerWord(w) ==
    CASE w = "John" -> "john"
      [] w = "Smith" -> "smith"
      [] w = "William" -> "william"
      [] w = "Johnson" -> "johnson"
      [] w = "Main" -> "main"
      [] w = "US" -> "us"
      [] OTHER -> w

\* s.strip().lower()
Lower(ws) == [i \in DOMAIN ws |-> LowerWord(ws[i])]

Range(f) == {f[i] : i \in DOMAIN f}

\* the entries of the abbreviations table for the words of the model
normalize_string(ws) ==
    [i \in DOMAIN ws |->
        CASE ws[i] = "st" -> "street"
          [] ws[i] = "ave" -> "avenue"
          [] ws[i] = "corp" -> "corporation"
          [] ws[i] = "eng" -> "engineer"
          [] OTHER -> ws[i]]

\* a similarity is the fraction <<numerator, denominator>>
word_similarity(ws1, ws2) ==
    IF ws1 = <<>> \/ ws2 = <<>> THEN <<0, 1>>
    ELSE <<Cardinality(Range(ws1) \cap Range(ws2)),
           Cardinality(Range(ws1) \cup Range(ws2))>>

Chars(ws) == UNION {Range(Spelling(w)) : w \in Range(ws)}

char_similarity(ws1, ws2) ==
    IF ws1 = <<>> /\ ws2 = <<>> THEN <<1, 1>>
    ELSE IF ws1 = <<>> \/ ws2 = <<>> THEN <<0, 1>>
    ELSE <<Cardinality(Chars(ws1) \cap Chars(ws2)),
           Cardinality(Chars(ws1) \cup Chars(ws2))>>

StartsWith(w, a) ==
    /\ Len(Spelling(a)) <= Len(Spelling(w))
    /\ SubSeq(Spelling(w), 1, Len(Spelling(a))) = Spelling(a)

\* called with a full_text of more than one word only
is_abbreviation(abbrev, full) ==
    IF Len(Spelling(abbrev)) < 2 THEN FALSE
    ELSE \/ Spelling(abbrev) = [i \in DOMAIN full |-> Spelling(full[i])[1]]
         \/ \E i \in DOMAIN full : StartsWith(full[i], abbrev)

\* in tenths: 0.9 or 0.0
abbreviation_similarity(ws1, ws2) ==
    IF Len(ws1) = 1 /\ Len(ws2) > 1
    THEN (IF is_abbreviation(ws1[1], ws2) THEN 9 ELSE 0)
    ELSE IF Len(ws2) = 1 /\ Len(ws1) > 1
    THEN (IF is_abbreviation(ws2[1], ws1) THEN 9 ELSE 0)
    ELSE 0

\* thresholds are given in tenths (0.8 is 8)
AtLeast(sim, threshold) == sim[1] * 10 >= threshold * sim[2]

fuzzy_match_general(ws1, ws2, threshold) ==
    LET w == word_similarity(ws1, ws2)
        c == char_similarity(ws1, ws2)
        a == abbreviation_similarity(ws1, ws2)
    IN  50 * w[1] * c[2] + 30 * c[1] * w[2] + 2 * a * w[2] * c[2]
            >= 10 * threshold * w[2] * c[2]

\* the entries of the nickname and variation tables for the words of the model
NameVariations(w) ==
    CASE w = "john" -> {"jon"}
      [] w = "william" -> {"bill"}
      [] OTHER -> {}

CheckNameVariationsOneWay(ws1, ws2) ==
    \E w1 \in Range(ws1), w2 \in Range(ws2) : w2 \in NameVariations(w1)
check_name_variations(ws1, ws2) ==
    \E w1 \in Range(ws1), w2 \in Range(ws2) :
        w2 \in NameVariations(w1) \/ w1 \in NameVariations(w2)

fuzzy_match_name(ws1, ws2, threshold) ==
    LET w == word_similarity(ws1, ws2)
        c == char_similarity(ws1, ws2)
    IN  IF Len(ws1) = 1 /\ Len(ws2) = 1 THEN fuzzy_match_general(ws1, ws2, threshold)
        ELSE \/ AtLeast(w, threshold)
             \/ AtLeast(c, threshold)
             \/ check_name_variations(ws1, ws2)
             \/ 6 * w[1] * c[2] + 4 * c[1] * w[2] >= threshold * w[2] * c[2]

clean_address(ws) ==
    SelectSeq(ws, LAMBDA w : w \notin {"street", "st", "avenue", "ave", "road", "rd",
                                       "drive", "dr", "lane", "ln"})

IsDigit(w) == Spelling(w) # <<>> /\ Range(Spelling(w)) \subseteq {"1", "2", "4", "5"}

check_partial_address_match(ws1, ws2) ==
    LET n1 == SelectSeq(ws1, IsDigit)
        n2 == SelectSeq(ws2, IsDigit)
    IN  IF Len(ws1) - Len(ws2) > 3 \/ Len(ws2) - Len(ws1) > 3 THEN FALSE
        ELSE IF n1 # <<>> /\ n2 # <<>> /\ n1[1] = n2[1]
        THEN AtLeast(word_similarity(SelectSeq(ws1, LAMBDA w : w # n1[1]),
                                     SelectSeq(ws2, LAMBDA w : w # n2[1])), 7)
        ELSE FALSE

fuzzy_match_address(ws1, ws2, threshold) ==
    LET c1 == clean_address(ws1)
        c2 == clean_address(ws2)
        w == word_similarity(c1, c2)
        c == char_similarity(c1, c2)
    IN  \/ c1 = c2
        \/ AtLeast(w, threshold)
        \/ check_partial_address_match(c1, c2)
        \/ 7 * w[1] * c[2] + 3 * c[1] * w[2] >= threshold * w[2] * c[2]

\* the words of a str: split() drops the runs of white space, written " "
Split(s) == SelectSeq(s, LAMBDA w : w # " ")

fuzzy_match_by_similarity(str1, str2, threshold, match_type) ==
    LET ws1 == Lower(Split(str1))
        ws2 == Lower(Split(str2))
    IN  IF str1 = <<>> \/ str2 = <<>> THEN FALSE
        ELSE IF match_type = "name" THEN fuzzy_match_name(ws1, ws2, threshold)
        ELSE IF match_type = "address" THEN fuzzy_match_address(ws1, ws2, threshold)
        ELSE fuzzy_match_general(ws1, ws2, threshold)
fuzzy_match(str1, str2, threshold, match_type) ==
    LET ws1 == Lower(Split(str1))
        ws2 == Lower(Split(str2))
    IN  IF str1 = <<>> \/ str2 = <<>> THEN FALSE
        ELSE IF ws1 = ws2 THEN TRUE
        ELSE IF normalize_string(ws1) = normalize_string(ws2) THEN TRUE
        ELSE IF match_type = "name" THEN fuzzy_match_name(ws1, ws2, threshold)
        ELSE IF match_type = "address" THEN fuzzy_match_address(ws1, ws2, threshold)
        ELSE fuzzy_match_general(ws1, ws2, threshold)

\* the date formats of the model: "15/05/1990" parses as %d %m %Y
normalize_date(ws) == IF ws = <<"15/05/1990">> THEN <<"1990-05-15">> ELSE ws

----------------------------------------------------------------------------
(* The rule-based validators *)

\* rec.get(k, '')
Field(rec, k) == Get(rec, k, NoText)
\* a truthy str (None and '' are falsy)
NonEmpty(v) == v.t = "text" /\ v.w # <<>>
\* v.strip(), v.split(): AttributeError on None
NotStr(v) == v.t # "text"

Discrepancy(field, doc, user, severity) ==
    [field |-> field, document_value |-> doc, user_value |-> user, severity |-> severity]

\* sum(1 for d in discrepancies if d["severity"] == severity)
Count(discs, severity) ==
    Cardinality({i \in DOMAIN discs : discs[i].severity = severity})

ValidationResult(match, score, discs, warnings) ==
    JDict([overall_match |-> JBool(match), confidence_score |-> JNum(score),
           discrepancies |-> JList(discs), warnings |-> JList(warnings),
           validation_details |-> EmptyDict])

\* the result every validator starts from, and the one for unknown types
DefaultResult == ValidationResult(TRUE, 100, <<>>, <<>>)

\* the result of the except branch of _validate_with_rules
ErrorValidation ==
    ValidationResult(FALSE, 0, <<JStr("Validation error occurred")>>,
                     <<JStr("Validation failed")>>)

Unclamped(penalty) == 100 - penalty
\* max(0, 100 - penalty)
Clamped(penalty) == Max({0, 100 - penalty})

ScoredKeepsMatch(discs, penalty) ==
    IF discs # <<>> THEN ValidationResult(TRUE, Clamped(penalty), discs, <<>>)
    ELSE DefaultResult
\* "Update overall match and confidence score"
Scored(discs, penalty) ==
    IF discs # <<>> THEN ValidationResult(FALSE, Clamped(penalty), discs, <<>>)
    ELSE DefaultResult

\* penalty of _validate_id_proof and _validate_address_proof
Penalty(discs) ==
    Count(discs, "high") * 30 + Count(discs, "medium") * 20 + Len(discs) * 10
\* penalty of _validate_employment_proof
EmploymentPenalty(discs) ==
    Count(discs, "high") * 30 + Count(discs, "medium") * 20
        + Count(discs, "low") * 10 + Len(discs) * 5

\* one comparison: appended only if both sides are non-empty and do not match
Compare(field, doc, user, threshold, match_type, severity) ==
    IF doc # <<>> /\ user # <<>> /\ ~fuzzy_match(doc, user, threshold, match_type)
    THEN <<Discrepancy(field, doc, user, severity)>>
    ELSE <<>>

IdProofRaises(extracted, user) ==
    \/ NotStr(Field(user, "name"))
    \/ NotStr(Field(extracted, "first_name"))
    \/ NotStr(Field(extracted, "last_name"))
    \/ NotStr(Field(extracted, "nationality"))
    \/ NotStr(Field(user, "nationality"))

validate_id_proof(extracted, user) ==
    LET name == Lower(Field(user, "name").w)
        user_first_name == IF name # <<>> THEN <<name[1]>> ELSE <<>>
        user_last_name == IF Len(name) > 1 THEN Tail(name) ELSE <<>>
        doc_first_name == Lower(Field(extracted, "first_name").w)
        doc_last_name == Lower(Field(extracted, "last_name").w)
        doc_dob == Field(extracted, "dob")
        user_dob == Field(user, "dob")
        discs ==
            Compare("first_name", doc_first_name, user_first_name, 8, "name", "medium")
            \o Compare("last_name", doc_last_name, user_last_name, 8, "name", "medium")
            \o (IF NonEmpty(doc_dob) /\ NonEmpty(user_dob)
                   /\ normalize_date(doc_dob.w) # normalize_date(user_dob.w)
                THEN <<Discrepancy("date_of_birth", doc_dob.w, user_dob.w, "high")>>
                ELSE <<>>)
            \o Compare("nationality", Lower(Field(extracted, "nationality").w),
                       Lower(Field(user, "nationality").w), 8, "general", "low")
    IN  Scored(discs, Penalty(discs))

AddressProofRaises(extracted, user) ==
    \/ NotStr(Field(extracted, "full_address"))
    \/ NotStr(Field(user, "address"))
    \/ NotStr(Field(extracted, "account_holder_name"))
    \/ NotStr(Field(user, "name"))

validate_address_proof(extracted, user) ==
    LET discs ==
            Compare("address", Lower(Field(extracted, "full_address").w),
                    Lower(Field(user, "address").w), 8, "address", "high")
            \o Compare("account_holder_name",
                       Lower(Field(extracted, "account_holder_name").w),
                       Lower(Field(user, "name").w), 8, "name", "high")
    IN  Scored(discs, Penalty(discs))

EmploymentProofRaises(extracted, user) ==
    \/ NotStr(Field(extracted, "employer_name"))
    \/ NotStr(Field(user, "employer"))
    \/ NotStr(Field(extracted, "employee_name"))
    \/ NotStr(Field(user, "name"))
    \/ NotStr(Field(extracted, "position"))
    \/ NotStr(Field(user, "occupation"))

validate_employment_proof(extracted, user) ==
    LET discs ==
            Compare("employer", Lower(Field(extracted, "employer_name").w),
                    Lower(Field(user, "employer").w), 7, "general", "medium")
            \o Compare("employee_name", Lower(Field(extracted, "employee_name").w),
                       Lower(Field(user, "name").w), 8, "name", "high")
            \o Compare("position", Lower(Field(extracted, "position").w),
                       Lower(Field(user, "occupation").w), 6, "general", "low")
    IN  Scored(discs, EmploymentPenalty(discs))

RulesRaise(extracted, user, document_type) ==
    CASE document_type = "id_proof" -> IdProofRaises(extracted, user)
      [] document_type = "address_proof" -> AddressProofRaises(extracted, user)
      [] document_type = "employment_proof" -> EmploymentProofRaises(extracted, user)
      [] OTHER -> FALSE

validate_with_rules(extracted, user, document_type) ==
    IF RulesRaise(extracted, user, document_type) THEN ErrorValidation
    ELSE CASE document_type = "id_proof" -> validate_id_proof(extracted, user)
           [] document_type = "address_proof" -> validate_address_proof(extracted, user)
           [] document_type = "employment_proof" ->
                  validate_employment_proof(extracted, user)
           [] OTHER -> DefaultResult

----------------------------------------------------------------------------
(* The primary path: the reply of the language model *)

\* "k in v" as Python evaluates it for a dict (a key) and a list (an element);
\* a number or null raises TypeError
PyIn(k, v) ==
    CASE v.t = "dict" -> k \in DOMAIN v.d
      [] v.t = "list" -> \E i \in DOMAIN v.l : v.l[i] = JStr(k)
      [] OTHER -> FALSE

RequiredFields == {"overall_match", "confidence_score", "discrepancies", "warnings"}

\* the text the reply carries, JNull if none was found, NoJson for
\* "Invalid LLM response format"
response_text(response) ==
    IF /\ HasKey(response, "output")
       /\ HasKey(response.d.output, "message")
       /\ HasKey(response.d.output.d.message, "content")
       /\ response.d.output.d.message.d.content.t = "list"
       /\ Len(response.d.output.d.message.d.content.l) > 0
       /\ HasKey(response.d.output.d.message.d.content.l[1], "text")
    THEN response.d.output.d.message.d.content.l[1].d.text
    ELSE IF HasKey(response, "content") /\ Len(response.d.content.l) > 0
    THEN LET content == response.d.content.l[1]
         IN  IF content.t = "str"
             THEN (IF Contains(content.s, "text") THEN NoJson ELSE content)
             ELSE IF HasKey(content, "text") THEN content.d.text
             ELSE JNull
    ELSE IF HasKey(response, "completion") THEN response.d.completion
    ELSE IF HasKey(response, "text") THEN response.d.text
    ELSE IF HasKey(response, "response") THEN response.d.response
    ELSE NoJson

\* a text that holds inner between the lines ```json and ```
Fenced(inner) == [t |-> "str", s |-> "fenced", js |-> NoJson, block |-> inner]

ExtractJsonIgnoringFence(text) == text.js
\* json.loads of the fenced block if the text has one, else of the text from
\* its first "{" to its last "}" or of the whole text; NoJson if that raises
ExtractJson(text) ==
    IF "block" \in DOMAIN text THEN text.block.js ELSE text.js

\* what _parse_llm_validation_response does with the parsed JSON value
Backfill(v) ==
    JDict([k \in DOMAIN v.d \cup RequiredFields \cup {"validation_details"} |->
              IF k \in DOMAIN v.d THEN v.d[k]
              ELSE IF k \in {"discrepancies", "warnings"} THEN JList(<<>>)
              ELSE IF k = "overall_match" THEN JBool(FALSE)
              ELSE IF k = "confidence_score" THEN JNum(0)
              ELSE EmptyDict])

ParseRaises(response) ==
    LET text == response_text(response)
    IN  \/ text = NoJson
        \/ ~Truthy(text)
        \/ ExtractJson(text) = NoJson
        \/ ExtractJson(text).t \notin {"dict", "list"}
        \/ /\ ExtractJson(text).t = "list"
           /\ \E k \in RequiredFields \cup {"validation_details"} :
                  ~PyIn(k, ExtractJson(text))

parse_llm_validation_response(response) ==
    LET v == ExtractJson(response_text(response))
    IN  IF v.t = "dict" THEN Backfill(v) ELSE v

\* the outcome of a call: a value, or an exception that leaves it
Raised == [kind |-> "raised"]
Value(path, result) == [kind |-> "value", path |-> path, result |-> result]

validate_with_llm(service) ==
    IF service.raise \/ ParseRaises(service.body) THEN Raised
    ELSE Value("llm", parse_llm_validation_response(service.body))

validate_document_data(extracted, user, document_type, service) ==
    IF validate_with_llm(service) = Raised
    THEN Value("rules", validate_with_rules(extracted, user, document_type))
    ELSE validate_with_llm(service)

----------------------------------------------------------------------------
(* validate_document_data on its own: records, document types and replies *)

Absent == [t |-> "absent"]
\* the JSON object with the members that are given
Object(r) == JDict([k \in {k \in DOMAIN r : r[k] # Absent} |-> r[k]])

Dob1 == Txt(<<"1990-05-15">>)
Dob1Slashes == Txt(<<"15/05/1990">>)
Dob2 == Txt(<<"1985-01-01">>)
JohnSmith == Txt(<<"John", "Smith">>)
JaneDoe == Txt(<<"jane", "doe">>)
MainStreet == Txt(<<"12", "main", "street">>)
MainSt == Txt(<<"12", "main", "st">>)
OakStreet == Txt(<<"45", "oak", "street">>)

ExtractedRecords(document_type) ==
    CASE document_type = "id_proof" ->
           {Object(r) : r \in [first_name : {Absent, Txt(<<"john">>), Txt(<<"jane">>),
                                             Txt(<<"bill">>)},
                               last_name : {NoText, Txt(<<"smith">>), Txt(<<"doe">>),
                                            Txt(<<"johnson">>)},
                               dob : {Absent, Dob1Slashes, Dob2},
                               nationality : {Absent, JNull, Txt(<<"us">>), Txt(<<"uk">>)}]}
      [] document_type = "address_proof" ->
           {Object(r) : r \in [full_address : {Absent, NoText, MainSt, OakStreet},
                               account_holder_name : {Absent, JNull, JohnSmith, JaneDoe}]}
      [] document_type = "employment_proof" ->
           {Object(r) : r \in [employer_name : {Absent, Txt(<<"acme", "corp">>),
                                                Txt(<<"globex">>)},
                               employee_name : {NoText, JohnSmith, JaneDoe},
                               position : {Absent, JNull, Txt(<<"eng">>),
                                           Txt(<<"manager">>)}]}
      [] OTHER -> {Object([first_name |-> Txt(<<"jane">>)])}

DeclaredRecords(document_type) ==
    CASE document_type = "id_proof" ->
           {Object(r) : r \in [name : {Absent, JohnSmith, Txt(<<"John">>), Txt(<<"jon">>),
                                       Txt(<<"William", "Johnson">>)},
                               dob : {Absent, NoText, Dob1},
                               nationality : {Absent, Txt(<<"US">>)}]}
      [] document_type = "address_proof" ->
           {Object(r) : r \in [name : {Absent, JohnSmith, Txt(<<"John">>)},
                               address : {Absent, NoText, MainStreet}]}
      [] document_type = "employment_proof" ->
           {Object(r) : r \in [name : {Absent, JohnSmith},
                               employer : {Absent, Txt(<<"acme", "corporation">>),
                                           Txt(<<"acme">>)},
                               occupation : {Absent, NoText, Txt(<<"engineer">>)}]}
      [] OTHER -> {Object([name |-> JohnSmith])}

DocumentTypes == DocTypes \cup {"selfie"}

\* the Bedrock reply whose text is body
Bedrock(body) ==
    Reply(JDict([output |-> JDict([message |->
        JDict([content |-> JList(<<JDict([text |-> body])>>)])])]))

\* replies of the language model: no reply, an unknown shape, no text,
\* text that is not JSON, JSON that is not an object, and objects with and
\* without the required keys and with scores inside and outside 0..100
Services ==
    {Raise,
     Reply(JDict([error |-> JStr("throttled")])),
     Bedrock(EmptyBody),
     Bedrock(PlainText),
     Reply(JDict([completion |-> AsJson(JList(<<>>))])),
     Bedrock(AsJson(JList(<<JStr("overall_match"), JStr("confidence_score"),
                            JStr("discrepancies"), JStr("warnings"),
                            JStr("validation_details")>>))),
     Bedrock(AsJson(EmptyDict)),
     Bedrock(AsJson(JDict([overall_match |-> JBool(TRUE)])))}
    \cup {Bedrock(AsJson(JDict([overall_match |-> JBool(TRUE), confidence_score |-> sc,
                                discrepancies |-> JList(<<>>),
                                warnings |-> JList(<<>>)]))) :
             sc \in {JNum(85), JNum(150), JNum(-5), JStr("high")}}

InitValidate ==
    /\ InitStore
    /\ run = [r \in Procs |-> Idle]
    /\ \E ty \in DocumentTypes :
         \E e \in ExtractedRecords(ty), u \in DeclaredRecords(ty) :
           pure_in = [kind |-> "validate", extracted |-> e, user |-> u,
                      document_type |-> ty]
    /\ pure_out = NoPure

ValidateDocument ==
    /\ pure_in.kind = "validate"
    /\ pure_out = NoPure
    /\ \E service \in Services :
           pure_out' = validate_document_data(pure_in.extracted, pure_in.user,
                                              pure_in.document_type, service)
    /\ UNCHANGED <<db_cases, db_steps, db_docs, db_audit, run, session_state, sent,
                   started, admin_ops, sessions, pure_in>>

NextValidate == ValidateDocument

SpecValidate == InitValidate /\ [][NextValidate]_vars

----------------------------------------------------------------------------
(* Properties of validate_document_data *)

\* a result of the rule-based path
RuleBased == pure_out.kind = "value" /\ pure_out.path = "rules"

\* C13: validate_document_data never raises and, whatever the extracted and
\* declared records, the document type and the reply of the service, returns
\* an object that has the keys overall_match, confidence_score, discrepancies
\* and warnings.
C13_AlwaysWellFormedResult ==
    pure_out # NoPure =>
        /\ pure_out.kind = "value"
        /\ pure_out.result.t = "dict"
        /\ RequiredFields \subseteq DOMAIN pure_out.result.d

\* C14: the confidence_score of every returned result, from the primary path
\* or from the rules, is an integer between 0 and 100.
C14_ScoreWithinRange ==
    (pure_out # NoPure /\ pure_out.kind = "value" /\ HasKey(pure_out.result,
                                                             "confidence_score")) =>
        /\ pure_out.result.d.confidence_score.t = "num"
        /\ pure_out.result.d.confidence_score.n \in 0..100

Score == pure_out.result.d.confidence_score
Discrepancies == pure_out.result.d.discrepancies.l

\* C15: the confidence_score of every result of the rule-based validator,
\* for the three document types, for unknown types and for the internal-error
\* result, is between 0 and 100.
C15_RuleScoreWithinRange ==
    RuleBased => Score.t = "num" /\ Score.n \in 0..100

\* the penalty exceeds 100 and the score is cut off at 0
C15_Witness ==
    /\ RuleBased
    /\ pure_in.document_type = "id_proof"
    /\ Len(Discrepancies) = 4
    /\ Score = JNum(0)

\* C16: in every result of the rule-based validator, overall_match is true
\* exactly if the list of discrepancies is empty.
C16_MatchIffNoDiscrepancy ==
    RuleBased => (pure_out.result.d.overall_match = JBool(Discrepancies = <<>>))

\* a validator found discrepancies and reports no match
C16_Witness ==
    /\ RuleBased
    /\ pure_in.document_type = "address_proof"
    /\ Len(Discrepancies) = 2
    /\ pure_out.result.d.overall_match = JBool(FALSE)

\* C17: for the three document types the score of the rule-based validator is
\* max(0, 100 - (30 H + 20 M + 10 L + k T)) with k 5 or 10, H, M and L the
\* numbers of high, medium and low discrepancies and T their total.
C17_PenaltyFormula ==
    (RuleBased /\ pure_in.document_type \in DocTypes
        /\ pure_out.result # ErrorValidation) =>
        \E k \in {5, 10} :
            Score = JNum(Max({0, 100 - (30 * Count(Discrepancies, "high")
                                        + 20 * Count(Discrepancies, "medium")
                                        + 10 * Count(Discrepancies, "low")
                                        + k * Len(Discrepancies))}))

\* the members of the two records a discrepancy field is computed from
Sides(field) ==
    CASE field = "first_name" -> <<"first_name", "name">>
      [] field = "last_name" -> <<"last_name", "name">>
      [] field = "date_of_birth" -> <<"dob", "dob">>
      [] field = "nationality" -> <<"nationality", "nationality">>
      [] field = "address" -> <<"full_address", "address">>
      [] field = "account_holder_name" -> <<"account_holder_name", "name">>
      [] field = "employer" -> <<"employer_name", "employer">>
      [] field = "employee_name" -> <<"employee_name", "name">>
      [] field = "position" -> <<"position", "occupation">>

ComparedFields(document_type) ==
    CASE document_type = "id_proof" ->
           {"first_name", "last_name", "date_of_birth", "nationality"}
      [] document_type = "address_proof" -> {"address", "account_holder_name"}
      [] document_type = "employment_proof" -> {"employer", "employee_name", "position"}
      [] OTHER -> {}

\* both records hold a non-empty value for the field (the declared last name
\* is what follows the first word of the declared name)
BothGiven(field) ==
    /\ NonEmpty(Field(pure_in.extracted, Sides(field)[1]))
    /\ NonEmpty(Field(pure_in.user, Sides(field)[2]))
    /\ field = "last_name" => Len(Field(pure_in.user, "name").w) > 1

\* C18: in the rule-based validator every discrepancy belongs to a field for
\* which both records hold a non-empty value, and a record pair with no such
\* field keeps the score 100.
C18_MissingFieldsAreSkipped ==
    RuleBased =>
        /\ \A i \in DOMAIN Discrepancies :
               /\ "field" \in DOMAIN Discrepancies[i]
               /\ BothGiven(Discrepancies[i].field)
        /\ (\A f \in ComparedFields(pure_in.document_type) : ~BothGiven(f))
               => Score = JNum(100)

----------------------------------------------------------------------------
----------------------------------------------------------------------------
(* calculate_estimated_risk on its own: a record, and the record with one  *)
(* more risk factor                                                        *)

Incomes == {NoIncome, 100000, 200000, 300000, 500000, 600000}

RiskRecords ==
    {[BlankCustomer EXCEPT !.pep_status = pep, !.annual_income = inc,
                           !.business_name = b, !.position = pos, !.documents = d] :
        pep \in BOOLEAN, inc \in Incomes, b \in {"", "Acme LLC"},
        pos \in {"", "Engineer", "Government Official"}, d \in SUBSET DocTypes}

\* the records that differ from cd by one added factor
WithOneMoreFactor(cd) ==
    ({[cd EXCEPT !.pep_status = TRUE],
      [cd EXCEPT !.business_name = "Acme LLC"],
      [cd EXCEPT !.position = "Government Official"]} \ {cd})
    \cup {[cd EXCEPT !.annual_income = inc] : inc \in {i \in Incomes : i > cd.annual_income}}
    \cup {[cd EXCEPT !.documents = @ \ {ty}] : ty \in cd.documents}

InitRisk ==
    /\ InitStore
    /\ run = [r \in Procs |-> Idle]
    /\ \E cd \in RiskRecords : pure_in = [kind |-> "risk", cd |-> cd]
    /\ pure_out = NoPure

\* the estimate for the record, and for the record with one more factor
EstimateRisk ==
    /\ pure_in.kind = "risk"
    /\ pure_out = NoPure
    /\ \E more \in WithOneMoreFactor(pure_in.cd) :
           pure_out' = [kind |-> "risk", more |-> more,
                        before |-> calculate_estimated_risk(pure_in.cd),
                        after |-> calculate_estimated_risk(more)]
    /\ UNCHANGED <<db_cases, db_steps, db_docs, db_audit, run, session_state, sent,
                   started, admin_ops, sessions, pure_in>>

NextRisk == EstimateRisk

SpecRisk == InitRisk /\ [][NextRisk]_vars

----------------------------------------------------------------------------
(* Properties of calculate_estimated_risk *)

\* the score as the specification states it
StatedScore(cd) ==
    (IF cd.pep_status THEN 50 ELSE 0)
    + (IF cd.annual_income = NoIncome THEN 0
       ELSE IF cd.annual_income > 500000 THEN 30
       ELSE IF cd.annual_income > 200000 THEN 15 ELSE 0)
    + (IF cd.business_name # "" THEN 20 ELSE 0)
    + (IF cd.position = "Government Official" THEN 25 ELSE 0)
    + 10 * Cardinality({ty \in DocTypes : ty \notin cd.documents})

StatedBand(score) ==
    IF score >= 50 THEN "High" ELSE IF score >= 25 THEN "Medium" ELSE "Low"

\* C19: calculate_estimated_risk returns the band of the additive score
\* (50 for PEP, 30 or 15 for income above 500,000 or 200,000, 20 for a business
\* name, 25 for a government position, 10 per missing required document):
\* High from 50, Medium from 25, Low below.
C19_AdditiveScoreBands ==
    pure_out # NoPure =>
        /\ pure_out.before = StatedBand(StatedScore(pure_in.cd))
        /\ pure_out.after = StatedBand(StatedScore(pure_out.more))

\* an income of exactly 500,000 counts 15, and with one missing document the
\* score is 25, the lowest Medium
C19_Witness ==
    /\ pure_out # NoPure
    /\ pure_in.cd.annual_income = 500000
    /\ ~pure_in.cd.pep_status
    /\ pure_in.cd.business_name = ""
    /\ pure_in.cd.position = ""
    /\ Cardinality(pure_in.cd.documents) = 2
    /\ pure_out.before = "Medium"

Rank(band) == CASE band = "Low" -> 1 [] band = "Medium" -> 2 [] band = "High" -> 3

\* C20: setting the PEP flag, adding a business name, adding a government
\* position, raising the income or removing a required document never gives
\* a lower band (Low < Medium < High).
C20_RiskMonotonic ==
    pure_out # NoPure => Rank(pure_out.after) >= Rank(pure_out.before)

\* removing a document lifts the band
C20_Witness ==
    /\ pure_out # NoPure
    /\ pure_out.more.documents # pure_in.cd.documents
    /\ pure_out.before = "Low"
    /\ pure_out.after = "Medium"

----------------------------------------------------------------------------
----------------------------------------------------------------------------
(* _fuzzy_match on its own: two strs, a threshold and a match type *)

NameStrings ==
    {<<"john", "doe">>, <<"jon", "smith">>, <<"John", " ", "Smith">>, <<"john", "smith">>,
     <<"william">>, <<"bill">>, <<"William", "Johnson">>, <<"bill", "johnson">>}
AddressStrings ==
    {<<"12", "main", "st">>, <<"12", "Main", "street">>, <<"12", "main", "ave">>,
     <<"45", "main", "st">>, <<"12", "oak", "st">>, <<"45", "oak", "avenue">>}
OtherStrings ==
    {<<"acme", "corp">>, <<"acme">>, <<"acme", "corporation">>, <<"eng">>,
     <<"engineer">>, <<" ">>}
Strings == NameStrings \cup AddressStrings \cup OtherStrings

\* in tenths
Thresholds == {6, 7, 8, 9}
MatchTypes == {"name", "address", "general"}

InitMatch ==
    /\ InitStore
    /\ run = [r \in Procs |-> Idle]
    /\ \E a \in Strings, b \in Strings, th \in Thresholds, ty \in MatchTypes :
           pure_in = [kind |-> "match", a |-> a, b |-> b, threshold |-> th,
                      match_type |-> ty]
    /\ pure_out = NoPure

\* the two calls _fuzzy_match(a, b) and _fuzzy_match(b, a)
Match ==
    /\ pure_in.kind = "match"
    /\ pure_out = NoPure
    /\ pure_out' = [kind |-> "match",
                    ab |-> fuzzy_match(pure_in.a, pure_in.b, pure_in.threshold,
                                       pure_in.match_type),
                    ba |-> fuzzy_match(pure_in.b, pure_in.a, pure_in.threshold,
                                       pure_in.match_type)]
    /\ UNCHANGED <<db_cases, db_steps, db_docs, db_audit, run, session_state, sent,
                   started, admin_ops, sessions, pure_in>>

NextMatch == Match

SpecMatch == InitMatch /\ [][NextMatch]_vars

----------------------------------------------------------------------------
(* Properties of _fuzzy_match *)

C22_MatchSymmetric ==
    pure_out # NoPure => (pure_out.ab = pure_out.ba)

\* the nickname lookup decides the match of two full names
C22_Witness ==
    /\ pure_out # NoPure
    /\ pure_in.match_type = "name"
    /\ pure_in.a = <<"jon", "smith">>
    /\ pure_in.b = <<"john", "doe">>
    /\ pure_out.ab
    /\ pure_out.ba

\* the road-type word of an address of the model, abbreviations spelled out
RoadType(ad) == normalize_string(Lower(Split(ad)))[3]

\* C28: at threshold 0.8 two addresses with different street numbers,
\* different street names or different road types do not match.
C28_AddressesDistinguished ==
    (/\ pure_out # NoPure
     /\ pure_in.match_type = "address"
     /\ pure_in.threshold = 8
     /\ pure_in.a \in AddressStrings
     /\ pure_in.b \in AddressStrings
     /\ \/ Lower(pure_in.a)[1] # Lower(pure_in.b)[1]
        \/ Lower(pure_in.a)[2] # Lower(pure_in.b)[2]
        \/ RoadType(pure_in.a) # RoadType(pure_in.b)) =>
        ~pure_out.ab

\* The first names of the two records are nickname variants of each other
NicknameFirstNames ==
    /\ NonEmpty(Field(pure_in.user, "name"))
    /\ NonEmpty(Field(pure_in.extracted, "first_name"))
    /\ check_name_variations(<<Lower(Field(pure_in.user, "name").w)[1]>>,
                             Lower(Field(pure_in.extracted, "first_name").w))

\* C23: rule-based id-proof validation reports no first_name discrepancy when
\* the declared and the extracted first name are nickname variants of each
\* other ("William Johnson" against bill johnson).
C23_NicknamesMatch ==
    (RuleBased /\ pure_in.document_type = "id_proof"
        /\ pure_out.result # ErrorValidation /\ NicknameFirstNames) =>
        \A i \in DOMAIN Discrepancies : Discrepancies[i].field # "first_name"

----------------------------------------------------------------------------
----------------------------------------------------------------------------
(* One request to submit_customer_kyc: the run and what the handler does   *)
(* with its result, for each kind of validation warnings                   *)

SubmitAgents == {"document_validation", "compliance"}

InitSubmit ==
    /\ InitStore
    /\ \E cd \in {Alice, Returning}, w \in WarningLists :
           run = [r \in Procs |->
                     IF r = 1 THEN NewRun(cd, NoFiles, SubmitAgents, w) ELSE Idle]
    /\ pure_in = NoPure
    /\ pure_out = NoPure

NextSubmit ==
    \E r \in Procs :
        \/ BeginSubmission(r)
        \/ CheckExists(r)
        \/ GetOrCreate(r)
        \/ AddDocuments(r)
        \/ StageBegin(r)
        \/ (run[r].pc = "await"
              /\ \E o \in SmallOutcomes(Stages[run[r].stage]) : StageReply(r, o))
        \/ PepCheck(r)
        \/ Finalize(r)
        \/ SubmitReturn(r)

SpecSubmit == InitSubmit /\ [][NextSubmit]_vars

\* C25: when the run ended approved and there is at least one validation
\* warning, then after the submit operation the stored case is pending with
\* no completion time, its validation notes mention the warnings and the
\* returned final status is pending; with no warnings the final status of the
\* run is left as it was.
C25_WarningsOverrideToPending ==
    [][\A r \in Procs :
          (run[r].pc = "done" /\ run'[r].pc = "closed"
              /\ run[r].ret.status = "success") =>
              IF run[r].warnings # <<>>
              THEN run[r].ret.final_status = "approved" =>
                     /\ run'[r].ret.status = "success"
                     /\ run'[r].ret.final_status = "pending"
                     /\ db_cases'[run[r].ret.case_id].status = "pending"
                     /\ ~db_cases'[run[r].ret.case_id].completion_time
                     /\ \E i \in DOMAIN db_cases'[run[r].ret.case_id].validation_status :
                            db_cases'[run[r].ret.case_id].validation_status[i]
                                = "Document Validation Warnings"
              ELSE /\ run'[r].ret = run[r].ret
                   /\ db_cases' = db_cases]_vars

----------------------------------------------------------------------------
(* The discrepancies of the rule-based validator *)

\* C27: every element of the discrepancies of every result of the rule-based
\* validator, the internal-error result included, is a record with a field,
\* a document_value, a user_value and a severity that is low, medium or high.
C27_DiscrepanciesAreRecords ==
    RuleBased =>
        \A i \in DOMAIN Discrepancies :
            /\ {"field", "document_value", "user_value", "severity"}
                   \subseteq DOMAIN Discrepancies[i]
            /\ Discrepancies[i].severity \in {"low", "medium", "high"}

----------------------------------------------------------------------------
----------------------------------------------------------------------------
(* _parse_llm_validation_response on its own: one JSON object, bare and    *)
(* fenced, in each envelope                                                *)

\* the envelopes the parser accepts
Envelopes == {"output", "content", "content_str", "completion", "text", "response"}

Envelope(shape, text) ==
    CASE shape = "output" -> Bedrock(text).body
      [] shape = "content" -> JDict([content |-> JList(<<JDict([text |-> text])>>)])
      [] shape = "content_str" -> JDict([content |-> JList(<<text>>)])
      [] shape = "completion" -> JDict([completion |-> text])
      [] shape = "text" -> JDict([text |-> text])
      [] OTHER -> JDict([response |-> text])

\* objects with every subset of the members the parser looks at
ReplyObjects ==
    {JDict([k \in ks |->
               CASE k = "overall_match" -> JBool(TRUE)
                 [] k = "confidence_score" -> JNum(85)
                 [] k = "validation_details" -> JDict([name_match |-> JBool(TRUE)])
                 [] OTHER -> JList(<<JStr("check the date")>>)]) :
        ks \in SUBSET (RequiredFields \cup {"validation_details"})}

InitParse ==
    /\ InitStore
    /\ run = [r \in Procs |-> Idle]
    /\ \E shape \in Envelopes, j \in ReplyObjects :
           pure_in = [kind |-> "parse", shape |-> shape, j |-> j]
    /\ pure_out = NoPure

\* the parse of the reply with the bare text and with the fenced text
ParseBoth ==
    /\ pure_in.kind = "parse"
    /\ pure_out = NoPure
    /\ pure_out' =
           [kind |-> "parse",
            bare |-> validate_with_llm(Reply(Envelope(pure_in.shape, AsJson(pure_in.j)))),
            fenced |-> validate_with_llm(
                           Reply(Envelope(pure_in.shape, Fenced(AsJson(pure_in.j)))))]
    /\ UNCHANGED <<db_cases, db_steps, db_docs, db_audit, run, session_state, sent,
                   started, admin_ops, sessions, pure_in>>

NextParse == ParseBoth

SpecParse == InitParse /\ [][NextParse]_vars

----------------------------------------------------------------------------
(* The processing steps, the external calls and the document rows of a run *)

StepsOf(r, a) == {i \in DOMAIN db_steps[r] : db_steps[r][i].agent_type = a}

\* C26: after a run has completed, the store holds exactly one processing
\* step of the run for each of the five stages, and every one of them is
\* finalised as success or error with an end time, the stages whose agent is
\* not configured included.
C26_OneFinalisedStepPerStage ==
    \A r \in Procs :
        (Finished(r) /\ run[r].ret.status = "success") =>
            /\ \A a \in StageSet : Cardinality(StepsOf(r, a)) = 1
            /\ \A i \in DOMAIN db_steps[r] :
                   /\ db_steps[r][i].status \in {"success", "error"}
                   /\ db_steps[r][i].ended

\* the calls of run r to the agent of stage a
CallsOf(r, a) == {i \in DOMAIN sent[r] : sent[r][i].stage = a}

\* the call a step of run r adds to the log, if it adds one
NewCall(r) == sent[r]'[Len(sent[r]')]

\* a step of run r sends at most one call: the first call of the stage it
\* begins, or the simplified call while the first call of the stage is
\* answered without an exception; a step in which a call raises sends nothing
CallDiscipline(r) ==
    /\ Len(sent[r]') \in {Len(sent[r]), Len(sent[r]) + 1}
    /\ Len(sent[r]') > Len(sent[r]) =>
           \/ /\ run[r].pc = "stage"
              /\ NewCall(r).format = "json"
              /\ NewCall(r).stage = Stages[run[r].stage]
              /\ CallsOf(r, NewCall(r).stage) = {}
           \/ /\ run[r].pc = "await"
              /\ run[r]'.pc = "await2"
              /\ NewCall(r).format = "simple"
              /\ NewCall(r).stage = Stages[run[r].stage]
              /\ run[r]'.raised = run[r].raised
    /\ run[r]'.raised # run[r].raised =>
           /\ sent[r]' = sent[r]
           /\ run[r]'.pc \notin {"await", "await2"}

CallsBounded ==
    \A r \in Procs :
        /\ \A a \in StageSet : Cardinality(CallsOf(r, a)) <= 2
        /\ Len(sent[r]) <= 2 * Len(Stages)

\* the answers of a call: an exception, an empty body, a body
CallOutcomes(a) == {Raise, Reply(EmptyBody), Reply(AsJson(SimpleDoc(a)))}

InitCalls ==
    /\ InitStore
    /\ \E agents \in {AllAgents, AllAgents \ {"risk_analysis"}} :
           run = [r \in Procs |->
                     IF r = 1 THEN NewRun(Alice, NoFiles, agents, NoWarnings) ELSE Idle]
    /\ pure_in = NoPure
    /\ pure_out = NoPure

NextCalls ==
    \E r \in Procs :
        \/ BeginSubmission(r)
        \/ CheckExists(r)
        \/ GetOrCreate(r)
        \/ AddDocuments(r)
        \/ StageBegin(r)
        \/ (run[r].pc = "await"
              /\ \E o \in CallOutcomes(Stages[run[r].stage]) : StageReply(r, o))
        \/ (run[r].pc = "await2"
              /\ \E o \in CallOutcomes(Stages[run[r].stage]) : StageReplySimple(r, o))
        \/ PepCheck(r)
        \/ Finalize(r)
        \/ SubmitReturn(r)

\* one submission, run to its end: process_customer_submission is one
\* sequential call, so a step that can be taken is taken
SpecCalls == InitCalls /\ [][NextCalls]_vars /\ WF_vars(NextCalls)

\* C29: a stage calls the external service at most twice, the second time,
\* with the simplified input, only after a first call that returned an empty
\* body without raising; a call that raises is not repeated; a run makes at
\* most ten calls and ends with a result.
C29_AtMostTwoCallsAndTerminates ==
    /\ [][\A r \in Procs : run[r].pc # "idle" => CallDiscipline(r)]_vars
    /\ [](CallsBounded)
    /\ <>(Finished(1) /\ run[1].ret # NoResult)

\* a finished run in which a stage was called twice and another stage raised
\* on its first call
C29_Witness ==
    /\ Finished(1)
    /\ \E a \in StageSet : Cardinality(CallsOf(1, a)) = 2
    /\ \E a \in run[1].raised : Cardinality(CallsOf(1, a)) = 1

----------------------------------------------------------------------------
(* Submissions whose attached documents are, or are not, in the documents  *)
(* directory                                                               *)

DocsAgents == {"compliance"}

\* every document found, none, only the identity document, and one whose
\* extraction failed
DocumentFiles ==
    {GoodFiles, NoFiles,
     [NoFiles EXCEPT !["id_proof"] = FileOf(IdData)],
     [GoodFiles EXCEPT !["address_proof"].ok = FALSE]}

InitDocs ==
    /\ InitStore
    /\ \E cd \in {Alice, Bob}, files \in DocumentFiles :
           run = [r \in Procs |->
                     IF r = 1 THEN NewRun(cd, files, DocsAgents, NoWarnings) ELSE Idle]
    /\ pure_in = NoPure
    /\ pure_out = NoPure

SpecDocs == InitDocs /\ [][NextSubmit]_vars

\* the document rows of a case, with their numbers of copies
RowsOfCase(c) == {row \in BagToSet(db_docs) : row.case_id = c}

\* C30: after a submission for a new customer, the store holds exactly one
\* document row for each attached document of the case, and no (document
\* type, document id) twice.
C30_OneRowPerDocument ==
    \A r \in Procs :
        (Finished(r) /\ run[r].ret.status = "success" /\ ~run[r].exists) =>
            /\ RowsOfCase(run[r].case_id) =
                   BagToSet(DocRows(run[r].case_id, run[r].cd.documents))
            /\ \A row \in RowsOfCase(run[r].case_id) : CopiesIn(row, db_docs) = 1


====
